---- MODULE Spec2Model ----
(***************************************************************************)
(* BOinG chooser (smac/optimizer/configuration_chooser/boing_chooser.py):  *)
(* the subspace extraction that walks the trees of the global random       *)
(* forest, and the switching between BOinG and TuRBO in choose_next.       *)
(*                                                                         *)
(* Dimensions and observations are numbered from 1 here (from 0 in the     *)
(* source); tree nodes keep the source's numbering, the root being 0.      *)
(* Continuous values and split thresholds are taken on the integer grid    *)
(* 0..GridMax, a categorical value is one of 0..NumCats-1.                 *)
(***************************************************************************)
EXTENDS Integers, Sequences, FiniteSets, TLC

\* ------------------------------------------------------------------ bounds
\* Upper end of the grid of a continuous dimension.
GridMax == 2
\* Number of choices of the categorical dimension.
NumCats == 2
\* Largest number of observations handed to subspace_extraction.
MaxObs == 2
\* Number of trees of the forest.
NumTrees == 2
\* Largest depth (in edges) of a tree of the forest.
MaxDepth == 2
\* The run history counts its observations up to MaxHist; choose_next
\* compares the count with 0 and with min_configs_local / 0.8 only.
MaxHist == 3
\* Largest number of initial configurations a new TuRBO subspace holds.
MaxInit == 1
\* The chooser's counts of failures are followed up to MaxFail.
MaxFail == 3

\* ------------------------------------------------- the configuration space
\* Marker of the second bound of a categorical dimension (np.nan in get_types).
NaN == "nan"

\* self.types: 0 for a continuous dimension, the number of choices otherwise.
types == <<0, NumCats>>

\* self.bounds: (lower, upper) of a continuous dimension, (choices, nan) of a
\* categorical one.
bounds == <<(<<0, GridMax>>), (<<NumCats, NaN>>)>>

Dims == DOMAIN types

\* Where(seq, P): the indices that np.where selects, in increasing order.
RECURSIVE WhereUpTo(_, _)
WhereUpTo(flags, n) ==
    IF n = 0 THEN <<>>
    ELSE IF flags[n] THEN Append(WhereUpTo(flags, n - 1), n)
         ELSE WhereUpTo(flags, n - 1)

\* self.cat_dims = np.where(np.array(types) != 0)[0]
cat_dims == WhereUpTo([d \in Dims |-> types[d] # 0], Len(types))

\* self.cont_dims = np.where(np.array(types) == 0)[0]
cont_dims == WhereUpTo([d \in Dims |-> types[d] = 0], Len(types))

\* The values a configuration array can hold in dimension d.
DimValues(d) == IF types[d] = 0 THEN bounds[d][1]..bounds[d][2] ELSE 0..(bounds[d][1] - 1)

\* The configuration arrays of the space.
Points == {p \in [Dims -> 0..(GridMax + NumCats)] : \A d \in Dims : p[d] \in DimValues(d)}

Trees == 1..NumTrees

\* ------------------------------------------------------- the forest's nodes
\* A node as the traversal reads it: is_a_leaf, get_feature_index,
\* get_num_split_value, get_cat_split.
LeafNode == [is_leaf |-> TRUE, feature |-> 0, num_split |-> 0, cat_split |-> {}]

\* The split nodes: a threshold of a continuous dimension lies above the
\* lower end of the dimension; a categorical split sends a non-empty proper
\* subset of the choices to the left child.
SplitNodes ==
    {[is_leaf |-> FALSE, feature |-> d, num_split |-> t, cat_split |-> {}] :
        d \in {c \in Dims : types[c] = 0}, t \in 1..GridMax}
    \cup
    UNION {{[is_leaf |-> FALSE, feature |-> d, num_split |-> 0, cat_split |-> s] :
               s \in (SUBSET DimValues(d)) \ {{}, DimValues(d)}} :
           d \in {c \in Dims : types[c] # 0}}

\* node.get_child_index(k): the nodes of a tree are numbered as in a heap.
get_child_index(n, k) == 2 * n + 1 + k

RECURSIVE NodeDepth(_)
NodeDepth(n) == IF n = 0 THEN 0 ELSE 1 + NodeDepth((n - 1) \div 2)

\* The nodes a tree of depth at most MaxDepth can hold at index n.
NodesAt(n) == IF NodeDepth(n) >= MaxDepth THEN {LeafNode} ELSE {LeafNode} \cup SplitNodes

\* A node the traversal has not read yet.
Unread == [is_leaf |-> FALSE, feature |-> 0, num_split |-> 0, cat_split |-> {}]

\* ---------------------------------------------------------------- state
VARIABLES
    \* subspace_extraction: its arguments
    X,               \* the observations, a sequence of configuration arrays
    challenger,      \* the configuration array the subspace grows around
    num_min,
    num_max,
    \* subspace_extraction: its locals
    trees,           \* trees[i]: the node under tree i's cursor once read
    node_indices,    \* node_indices[i]: the cursor of tree i
    stop_update,     \* stop_update[i]: tree i is frozen
    ss_indices,      \* the membership mask over the observations
    ss_bounds_cont,  \* per continuous dimension <<low, high>>
    ss_bounds_cat,   \* per categorical dimension the retained values
    indices_trees,   \* the trees the running traverse_forest call has yet to visit
    passes,          \* traverse_forest calls made in the running while loop
    phases,          \* while loops started: 1, and 2 once the max-count loop runs
    pc,              \* "first" / "second": the while loop that runs; "done": returned
    \* BOinGChooser: its attributes
    do_switching,
    run_TuRBO,
    failcount_BOinG,
    failcount_TurBO,
    optimal_value,
    optimal_config,
    turbo_optimizer, \* the TuRBOSubSpace: length, streaks, best value, initial configurations
    \* the run history, and the last call of choose_next
    runhistory,      \* what choose_next reads of the observations of the considered budget
    trial,           \* the call of choose_next that is due, or what the last call did
    \* a single call of one of the other functions
    call,            \* the function called and its arguments
    result,          \* what the call returned or raised, once it has ended
    \* a second run of the chooser on the same observations and draws
    twin             \* its switching state

extractVars == <<X, challenger, num_min, num_max, trees, node_indices, stop_update,
                 ss_indices, ss_bounds_cont, ss_bounds_cat, indices_trees, passes, phases,
                 pc>>

chooserVars == <<do_switching, run_TuRBO, failcount_BOinG, failcount_TurBO, optimal_value,
                 optimal_config, turbo_optimizer, runhistory, trial>>

callVars == <<call, result>>

twinVars == <<twin>>

vars == <<extractVars, chooserVars, callVars, twinVars>>

\* ------------------------------------------- BOinGChooser: values it holds
\* self.optimal_value = np.inf
Infinity == 1000000

\* self.optimal_config = None
None == <<>>

\* Raw costs of the observations. 0 to -999 and 0 to -1000 are improvements
\* beyond every relative threshold of choose_next, -999 to -1000 is one
\* below them.
YValues == {0 - 1000, 0 - 999, 0}

Abs(a) == IF a < 0 THEN 0 - a ELSE a

Min(a, b) == IF a <= b THEN a ELSE b

\* Mutant of MinOf: the greatest value of the set.
MinOf_greatest(S) == CHOOSE a \in S : \A b \in S : b <= a

MinOf(S) == CHOOSE a \in S : \A b \in S : a <= b

RECURSIVE Pow(_, _)
Pow(b, e) == IF e = 0 THEN 1 ELSE b * Pow(b, e - 1)

\* np.product(a - b) over the first n dimensions.
RECURSIVE ProductOfDiff(_, _, _)
ProductOfDiff(a, b, n) == IF n = 0 THEN 1 ELSE (a[n] - b[n]) * ProductOfDiff(a, b, n - 1)

\* np.abs(np.product(cfg_diff)) >= self.ss_threshold, with
\* self.ss_threshold = 0.1 ** len(cs.get_hyperparameters()). A continuous
\* coordinate g of the grid stands for g / GridMax of the unit interval.
FarApart(a, b) ==
    Abs(ProductOfDiff(a, b, Len(types))) * Pow(10, Len(types)) >= Pow(GridMax, Len(cont_dims))

\* increment < -(1 / per) * np.abs(value)
RelativelyBetter(increment, per, value) == per * increment < 0 - Abs(value)

\* self.min_configs_local, a parameter of the chooser.
min_configs_local == 2

TooFewPoints_below(n) == n < min_configs_local

\* X.shape[0] < (self.min_configs_local / self.frac_to_start_bi), with
\* self.frac_to_start_bi = 0.8
TooFewPoints(n) == 8 * n < 10 * min_configs_local

\* len(self.config_space.get_conditions()) == 0: the space has no conditions.
NoConditions == TRUE

DrawBelow_orEqual(tenth, count) == tenth <= count

\* rand_value < 0.1 * count, for rand_value in [0, 1) whose tenth is `tenth`
\* (the integer part of 10 * rand_value).
DrawBelow(tenth, count) == tenth < count

Tenths == 0..9

\* ------------------------------------- TuRBOSubSpace (the trust region)
\* Lengths are counted in halves of length_min: length_min=2e-4 is 2.
length_min == 2

length_init == 4

length_max == 8

\* The streak after which the length is doubled or halved.
streak_tol == 2

\* A subspace as constructed: its best value is that of its initial data.
NewTurbo(best, init) ==
    [length |-> length_init, success_count |-> 0, failure_count |-> 0,
     ss_y_min |-> best, init_configs |-> init]

adjust_length_unclamped(t, y) ==
    LET improved == y < t.ss_y_min
        succ == IF improved THEN t.success_count + 1 ELSE 0
        fail == IF improved THEN 0 ELSE t.failure_count + 1
    IN  IF succ = streak_tol
        THEN [t EXCEPT !.length = 2 * @, !.success_count = 0, !.failure_count = fail]
        ELSE IF fail = streak_tol
        THEN [t EXCEPT !.length = @ \div 2, !.success_count = succ, !.failure_count = 0]
        ELSE [t EXCEPT !.success_count = succ, !.failure_count = fail]

adjust_length_uncounted(t, y) == t

\* adjust_length(new_observation)
adjust_length(t, y) ==
    LET improved == y < t.ss_y_min
        succ == IF improved THEN t.success_count + 1 ELSE 0
        fail == IF improved THEN 0 ELSE t.failure_count + 1
    IN  IF succ = streak_tol
        THEN [t EXCEPT !.length = Min(2 * @, length_max), !.success_count = 0,
                       !.failure_count = fail]
        ELSE IF fail = streak_tol
        THEN [t EXCEPT !.length = @ \div 2, !.success_count = succ, !.failure_count = 0]
        ELSE [t EXCEPT !.success_count = succ, !.failure_count = fail]

\* add_new_observations(x, y): the observation joins the subspace's data when
\* it lies inside the trust region.
add_new_observations(t, y, inside) ==
    [t EXCEPT !.ss_y_min = IF inside THEN Min(@, y) ELSE @]

\* generate_challengers(): a pending initial configuration is handed out first.
generate_challengers(t) == [t EXCEPT !.init_configs = IF @ > 0 THEN @ - 1 ELSE 0]

\* ------------------------------------------------------- the run history
\* What choose_next reads of X and Y_raw: X.shape[0] (counted up to MaxHist),
\* the raw costs present, X[np.argmin(Y_raw)], X[-1] and Y_raw[-1].
EmptyHistory == [n |-> 0, seen |-> {}, min_x |-> None, last_x |-> None, last_y |-> 0]

\* The history with one more observation (x, y); np.argmin yields the first
\* minimum.
Recorded(h, x, y) ==
    [n |-> Min(h.n + 1, MaxHist),
     seen |-> h.seen \cup {y},
     min_x |-> IF h.seen = {} \/ y < MinOf(h.seen) THEN x ELSE h.min_x,
     last_x |-> x,
     last_y |-> y]

\* What a call of choose_next did: the branch it took, what the improvement
\* test found, the outcome of the switching draw, whether the global model
\* was trained and whether restart_TuRBOinG ran.
Did(branch, improvement, draw, trained, restarted) ==
    [branch |-> branch, improvement |-> improvement, draw |-> draw,
     trained |-> trained, restarted |-> restarted]

Due == Did("call", "-", "-", FALSE, FALSE)

\* ------------------------------------------------ calls of other functions
\* No call of another function is made.
NoCall == [fn |-> "none"]

\* The call has not ended.
Pending == [ended |-> FALSE]

\* The call returned value.
Returned(value) == [ended |-> TRUE, raised |-> "-", value |-> value]

\* The call raised an exception of the given class.
Raised(class) == [ended |-> TRUE, raised |-> class, value |-> None]

\* ------------------------------------------------- subspace_extraction
\* sum(mask): the number of observations a boolean mask selects.
sum(mask) == Cardinality({k \in DOMAIN mask : mask[k]})

\* np.where(feature_idx == dims)[0][0]: the position of a dimension in a list.
PositionIn(dims, feature_idx) == CHOOSE j \in DOMAIN dims : dims[j] = feature_idx

\* The order of the rows of X plays no part in the extraction (every row is
\* compared with the split on its own): the rows are enumerated in
\* non-decreasing order of Rank.
Rank(p) == p[1] * (NumCats + 1) + p[2]

ObsSeqs ==
    UNION {{s \in [1..n -> Points] : \A k \in 1..(n - 1) : Rank(s[k]) <= Rank(s[k + 1])} :
           n \in 0..MaxObs}

\* ss_bounds_cat as built before the traversal: all choices of each
\* categorical dimension, [()] when there is none.
InitBoundsCat ==
    IF Len(cat_dims) = 0 THEN << {} >>
    ELSE [j \in DOMAIN cat_dims |-> 0..(bounds[cat_dims[j]][1] - 1)]

\* ss_bounds_cont = ss_bounds[cont_dims]
InitBoundsCont == [j \in DOMAIN cont_dims |-> bounds[cont_dims[j]]]

\* Mutant of EnoughPoints: counts the mask as it was before the shrink.
EnoughPoints_before(temp_node_indices) == sum(ss_indices) > num_min

\* Mutant of EnoughPoints: any point left is enough, num_min is not read.
EnoughPoints_any(temp_node_indices) == sum(temp_node_indices) > 0

\* The test that lets a tentative shrink be committed.
EnoughPoints(temp_node_indices) == sum(temp_node_indices) > num_min

\* Mutant of OnRejected: without the num_min check the cursor stays.
OnRejected_stay(check_num_min) == IF check_num_min THEN "stop" ELSE "stay"

\* What a visit does with a tentative shrink that leaves too few points:
\* freeze the tree, or (traverse_forest(False)) move on without shrinking.
OnRejected(check_num_min) == IF check_num_min THEN "stop" ELSE "descend"

\* Mutant of ContBound: the left interval is written upper end first.
ContBound_swapped(right, split_value, low, high) ==
    IF right THEN <<split_value, high>> ELSE <<split_value, low>>

\* Continuous split: the tentative interval of the split dimension.
ContBound(right, split_value, low, high) ==
    IF right THEN <<split_value, high>> ELSE <<low, split_value>>

\* Mutant of ContMask: an observation on the threshold is dropped on the right.
ContMask_strict(right, v, split_value) == IF right THEN v > split_value ELSE v <= split_value

\* Continuous split: whether an observation with value v in the split
\* dimension stays selected.
ContMask(right, v, split_value) == IF right THEN v >= split_value ELSE v <= split_value

\* Categorical split: the tentative retained values of the split dimension.
CatBound(left, retained, split_value) ==
    IF left THEN retained \cap split_value ELSE retained \ split_value

\* Categorical split: whether an observation with value v in the split
\* dimension stays selected.
CatMask(left, v, split_value) == IF left THEN v \in split_value ELSE v \notin split_value

NoChild == 0 - 1

\* What one visit of a tree does whose cursor is on a split over a
\* categorical dimension: the child the cursor moves to (NoChild: it stays),
\* whether the tree is frozen, the retained values and the mask.
CatVisit(node, check_num_min) ==
    LET feature_idx == node.feature
        cat_feature_idx == PositionIn(cat_dims, feature_idx)
        split_value == node.cat_split
        retained == ss_bounds_cat[cat_feature_idx]
        intersect == retained \cap split_value
        keep == [child |-> NoChild, stop |-> FALSE, cat |-> ss_bounds_cat,
                 cont |-> ss_bounds_cont, ind |-> ss_indices]
    IN  IF Cardinality(intersect) = Cardinality(retained)
        THEN [keep EXCEPT !.child = 0]
        ELSE IF Cardinality(intersect) = 0
        THEN [keep EXCEPT !.child = 1]
        ELSE
          LET left == challenger[feature_idx] \in intersect
              temp_child_idx == IF left THEN 0 ELSE 1
              temp_node_indices ==
                  [k \in DOMAIN X |->
                      ss_indices[k] /\ CatMask(left, X[k][feature_idx], split_value)]
              temp_bound_ss == CatBound(left, retained, split_value)
          IN  IF EnoughPoints(temp_node_indices)
              THEN [keep EXCEPT !.child = temp_child_idx,
                                !.cat = [ss_bounds_cat EXCEPT ![cat_feature_idx] = temp_bound_ss],
                                !.ind = temp_node_indices]
              ELSE IF OnRejected(check_num_min) = "stop"
              THEN [keep EXCEPT !.stop = TRUE]
              ELSE IF OnRejected(check_num_min) = "descend"
              THEN [keep EXCEPT !.child = temp_child_idx]
              ELSE keep

\* The same for a split over a continuous dimension.
ContVisit(node, check_num_min) ==
    LET feature_idx == node.feature
        cont_feature_idx == PositionIn(cont_dims, feature_idx)
        split_value == node.num_split
        low == ss_bounds_cont[cont_feature_idx][1]
        high == ss_bounds_cont[cont_feature_idx][2]
        right == challenger[feature_idx] >= split_value
        temp_child_idx == IF right THEN 1 ELSE 0
        keep == [child |-> NoChild, stop |-> FALSE, cat |-> ss_bounds_cat,
                 cont |-> ss_bounds_cont, ind |-> ss_indices]
    IN  IF low <= split_value /\ split_value <= high
        THEN
          LET temp_bound_ss == ContBound(right, split_value, low, high)
              temp_node_indices ==
                  [k \in DOMAIN X |->
                      ss_indices[k] /\ ContMask(right, X[k][feature_idx], split_value)]
          IN  IF EnoughPoints(temp_node_indices)
              THEN [keep EXCEPT !.child = temp_child_idx,
                                !.cont = [ss_bounds_cont EXCEPT ![cont_feature_idx] = temp_bound_ss],
                                !.ind = temp_node_indices]
              ELSE IF OnRejected(check_num_min) = "stop"
              THEN [keep EXCEPT !.stop = TRUE]
              ELSE IF OnRejected(check_num_min) = "descend"
              THEN [keep EXCEPT !.child = temp_child_idx]
              ELSE keep
        ELSE [keep EXCEPT !.child = temp_child_idx]

\* Mutant of TreeVisit: a cursor that moves goes to the left child.
TreeVisit_left(node, check_num_min) ==
    LET r == IF node.is_leaf
             THEN [child |-> NoChild, stop |-> TRUE, cat |-> ss_bounds_cat,
                   cont |-> ss_bounds_cont, ind |-> ss_indices]
             ELSE IF \E j \in DOMAIN cont_dims : cont_dims[j] = node.feature
             THEN ContVisit(node, check_num_min)
             ELSE CatVisit(node, check_num_min)
    IN  IF r.child = NoChild THEN r ELSE [r EXCEPT !.child = 0]

\* The body of traverse_forest's loop for a tree that is not frozen and
\* whose cursor is on `node`.
TreeVisit(node, check_num_min) ==
    IF node.is_leaf
    THEN [child |-> NoChild, stop |-> TRUE, cat |-> ss_bounds_cat,
          cont |-> ss_bounds_cont, ind |-> ss_indices]
    ELSE IF \E j \in DOMAIN cont_dims : cont_dims[j] = node.feature
    THEN ContVisit(node, check_num_min)
    ELSE CatVisit(node, check_num_min)

\* The state subspace_extraction starts its first while loop in.
InitExtract ==
    /\ X \in ObsSeqs
    /\ challenger \in Points
    /\ num_min \in 0..(MaxObs + 1)
    /\ num_max \in 0..MaxObs
    /\ trees = [i \in Trees |-> Unread]
    /\ node_indices = [i \in Trees |-> 0]
    /\ stop_update = [i \in Trees |-> FALSE]
    /\ ss_indices = [k \in DOMAIN X |-> TRUE]
    /\ ss_bounds_cont = InitBoundsCont
    /\ ss_bounds_cat = InitBoundsCat
    /\ indices_trees = {}
    /\ passes = 0
    /\ phases = 1
    /\ pc = "first"
    /\ do_switching = FALSE
    /\ run_TuRBO = FALSE
    /\ failcount_BOinG = 0
    /\ failcount_TurBO = 0
    /\ optimal_value = Infinity
    /\ optimal_config = None
    /\ turbo_optimizer = NewTurbo(Infinity, 0)
    /\ runhistory = EmptyHistory
    /\ trial = Due
    /\ call = NoCall
    /\ result = Pending
    /\ twin = None

AllFrozen == \A i \in Trees : stop_update[i]

\* while sum(stop_update) < num_trees: traverse_forest(...) -- one more call.
\* np.random.shuffle(indices_trees): the trees are visited in any order;
\* a frozen tree is skipped.
Traverse ==
    /\ pc \in {"first", "second"}
    /\ indices_trees = {}
    /\ ~AllFrozen
    /\ indices_trees' = {i \in Trees : ~stop_update[i]}
    /\ passes' = passes + 1
    /\ UNCHANGED <<X, challenger, num_min, num_max, trees, node_indices, stop_update,
                   ss_indices, ss_bounds_cont, ss_bounds_cat, phases, pc>>
    /\ UNCHANGED <<chooserVars, callVars, twinVars>>

\* tree.get_node(node_idx): the forest is only read, and only under a cursor;
\* the call yields any node a tree of the forest can hold there, and the same
\* node while the cursor stays.
NodesUnder(i) == IF trees[i] = Unread THEN NodesAt(node_indices[i]) ELSE {trees[i]}

\* What the loop body writes for tree i once it has read `node`.
VisitNode(i, node) ==
    LET r == TreeVisit(node, pc = "first")
    IN  /\ trees' = [trees EXCEPT ![i] = IF r.child = NoChild THEN node ELSE Unread]
        /\ node_indices' =
             [node_indices EXCEPT
                 ![i] = IF r.child = NoChild THEN @ ELSE get_child_index(@, r.child)]
        /\ stop_update' = [stop_update EXCEPT ![i] = r.stop]
        /\ ss_indices' = r.ind
        /\ ss_bounds_cont' = r.cont
        /\ ss_bounds_cat' = r.cat

\* One iteration of traverse_forest's loop, for tree i.
Visit(i) ==
    /\ pc \in {"first", "second"}
    /\ i \in indices_trees
    /\ \E node \in NodesUnder(i) : VisitNode(i, node)
    /\ indices_trees' = indices_trees \ {i}
    /\ UNCHANGED <<X, challenger, num_min, num_max, passes, phases, pc>>
    /\ UNCHANGED <<chooserVars, callVars, twinVars>>

\* The first while loop has ended: if sum(ss_indices) > num_max the trees are
\* unfrozen and the second loop runs, else the function returns.
EndFirst ==
    /\ pc = "first"
    /\ indices_trees = {}
    /\ AllFrozen
    /\ IF sum(ss_indices) > num_max
       THEN /\ stop_update' = [i \in Trees |-> FALSE]
            /\ pc' = "second"
            /\ passes' = 0
            /\ phases' = phases + 1
       ELSE /\ pc' = "done"
            /\ UNCHANGED <<stop_update, passes, phases>>
    /\ UNCHANGED <<X, challenger, num_min, num_max, trees, node_indices,
                   ss_indices, ss_bounds_cont, ss_bounds_cat, indices_trees>>
    /\ UNCHANGED <<chooserVars, callVars, twinVars>>

\* The second while loop has ended: the function returns.
EndSecond ==
    /\ pc = "second"
    /\ indices_trees = {}
    /\ AllFrozen
    /\ pc' = "done"
    /\ UNCHANGED <<X, challenger, num_min, num_max, trees, node_indices, stop_update,
                   ss_indices, ss_bounds_cont, ss_bounds_cat, indices_trees, passes, phases>>
    /\ UNCHANGED <<chooserVars, callVars, twinVars>>

NextExtract ==
    \/ Traverse
    \/ \E i \in Trees : Visit(i)
    \/ EndFirst
    \/ EndSecond

SpecExtract == InitExtract /\ [][NextExtract]_vars

\* ------------------------------------------------ BOinGChooser.choose_next
\* The chooser as __init__ leaves it, before any observation; no extraction
\* runs in this specification's state.
InitChooser ==
    /\ do_switching \in BOOLEAN
    /\ run_TuRBO = FALSE
    /\ failcount_BOinG = 0
    /\ failcount_TurBO = 0
    /\ optimal_value = Infinity
    /\ optimal_config = None
    /\ turbo_optimizer = NewTurbo(Infinity, 0)
    /\ runhistory = EmptyHistory
    /\ trial = Due
    /\ call = NoCall
    /\ result = Pending
    /\ twin = None
    /\ X = <<>>
    /\ challenger = None
    /\ num_min = 0
    /\ num_max = 0
    /\ trees = <<>>
    /\ node_indices = <<>>
    /\ stop_update = <<>>
    /\ ss_indices = <<>>
    /\ ss_bounds_cont = InitBoundsCont
    /\ ss_bounds_cat = InitBoundsCat
    /\ indices_trees = {}
    /\ passes = 0
    /\ phases = 0
    /\ pc = "idle"

\* The configurations the evaluation loop reports: the corners of the space.
\* choose_next compares configurations by the product of their coordinate
\* differences only, which is zero unless every coordinate differs.
Evaluated == {p \in Points : p[1] \in {0, GridMax} /\ p[2] \in {0, NumCats - 1}}

\* The evaluation loop records the observation of one more configuration
\* and calls choose_next again (batch size 1).
RecordObservation(x, y) ==
    /\ trial.branch \notin {"call", "error"}
    /\ runhistory' = Recorded(runhistory, x, y)
    /\ trial' = Due
    /\ UNCHANGED <<do_switching, run_TuRBO, failcount_BOinG, failcount_TurBO, optimal_value,
                   optimal_config, turbo_optimizer>>
    /\ UNCHANGED <<extractVars, callVars, twinVars>>

InTuRBO == do_switching /\ run_TuRBO

\* restart_TuRBOinG: the new subspace holds the observations of the largest
\* region extracted, so its best value is one of the raw costs present.
RestartedTurbos == {NewTurbo(b, k) : b \in runhistory.seen, k \in 0..MaxInit}

\* TuRBO turn, initial configurations pending: the new observation is added
\* and the subspace's challengers are returned.
ChooseTurboInit ==
    /\ trial.branch = "call"
    /\ InTuRBO
    /\ turbo_optimizer.init_configs > 0
    /\ \E inside \in BOOLEAN :
          turbo_optimizer' =
              generate_challengers(add_new_observations(turbo_optimizer, runhistory.last_y, inside))
    /\ trial' = Did("turbo_init", "-", "-", FALSE, FALSE)
    /\ UNCHANGED <<do_switching, run_TuRBO, failcount_BOinG, failcount_TurBO, optimal_value,
                   optimal_config, runhistory>>
    /\ UNCHANGED <<extractVars, callVars, twinVars>>

\* The subspace after self.turbo_optimizer.adjust_length(new_observations).
AdjustedTurbo == adjust_length(turbo_optimizer, runhistory.last_y)

\* self.turbo_optimizer.length < self.turbo_optimizer.length_min
Exhausted(t) == t.length < length_min

ChooseTurboContinue_region ==
    /\ trial.branch = "call"
    /\ InTuRBO
    /\ turbo_optimizer.init_configs = 0
    /\ ~Exhausted(AdjustedTurbo)
    /\ turbo_optimizer' = AdjustedTurbo
    /\ trial' = Did("region", "-", "-", TRUE, FALSE)
    /\ UNCHANGED <<do_switching, run_TuRBO, failcount_BOinG, failcount_TurBO, optimal_value,
                   optimal_config, runhistory>>
    /\ UNCHANGED <<extractVars, callVars, twinVars>>

\* TuRBO turn, the trust region is not exhausted after adjust_length.
ChooseTurboContinue ==
    /\ trial.branch = "call"
    /\ InTuRBO
    /\ turbo_optimizer.init_configs = 0
    /\ ~Exhausted(AdjustedTurbo)
    /\ \E inside \in BOOLEAN :
          turbo_optimizer' =
              generate_challengers(add_new_observations(AdjustedTurbo, runhistory.last_y, inside))
    /\ trial' = Did("turbo_continue", "-", "-", FALSE, FALSE)
    /\ UNCHANGED <<do_switching, run_TuRBO, failcount_BOinG, failcount_TurBO, optimal_value,
                   optimal_config, runhistory>>
    /\ UNCHANGED <<extractVars, callVars, twinVars>>

\* increment = optimal_turbo - self.optimal_value
TurboIncrement == AdjustedTurbo.ss_y_min - optimal_value

TurboQualifies_previous ==
    \/ RelativelyBetter(TurboIncrement, 1000, optimal_value)
    \/ FarApart(runhistory.min_x, optimal_config)

\* The test that lets TuRBO hand over to BOinG: the new incumbent is
\* relatively much better or far from the previous one. self.optimal_value
\* is read after its update to Y_raw[min_idx].
TurboQualifies ==
    \/ RelativelyBetter(TurboIncrement, 1000, MinOf(runhistory.seen))
    \/ FarApart(runhistory.min_x, optimal_config)

\* What the improvement test of an exhausted trust region finds.
TurboImprovement ==
    IF TurboIncrement < 0 THEN (IF TurboQualifies THEN "major" ELSE "minor") ELSE "none"

TurboFailcountAfterTest_unlessMajor(improvement) ==
    IF improvement = "major" THEN failcount_TurBO - 1 ELSE failcount_TurBO + 1

\* Mutant of TurboFailcountAfterTest: every better value lowers the count.
TurboFailcountAfterTest_anyBetter(improvement) ==
    IF improvement = "none" THEN failcount_TurBO + 1 ELSE failcount_TurBO - 1

\* self.failcount_TurBO after the improvement test.
TurboFailcountAfterTest(improvement) ==
    IF improvement = "major" THEN failcount_TurBO - 1
    ELSE IF improvement = "none" THEN failcount_TurBO + 1
    ELSE failcount_TurBO

\* self.failcount_BOinG after the improvement test.
BOinGFailcountAfterTest(improvement) ==
    IF improvement = "major" THEN failcount_BOinG \div 2 ELSE failcount_BOinG

\* self.failcount_BOinG after the draw that follows the test.
BOinGFailcountAfterDraw(failcount, switch) == IF switch THEN failcount \div 2 ELSE failcount

\* X[min_idx] - self.optimal_config raises when a better value is found
\* while no incumbent is set.
NoIncumbentToCompare == TurboIncrement < 0 /\ optimal_config = None

\* TuRBO turn, the trust region is exhausted: the improvement test, then the
\* draw that switches to BOinG or restarts TuRBO. When the comparison with
\* the incumbent raises, self.optimal_value is already updated. The count of
\* TuRBO failures is followed while it is below `limit`.
ChooseTurboExhaustedBelow(limit) ==
    /\ trial.branch = "call"
    /\ InTuRBO
    /\ turbo_optimizer.init_configs = 0
    /\ Exhausted(AdjustedTurbo)
    /\ failcount_TurBO < limit
    /\ IF NoIncumbentToCompare
       THEN /\ optimal_value' = MinOf(runhistory.seen)
            /\ turbo_optimizer' = AdjustedTurbo
            /\ trial' = Did("error", "-", "-", FALSE, FALSE)
            /\ UNCHANGED <<run_TuRBO, failcount_BOinG, failcount_TurBO, optimal_config>>
       ELSE LET improvement == TurboImprovement
                failcount == TurboFailcountAfterTest(improvement)
            IN  /\ optimal_value' = IF improvement = "none" THEN optimal_value
                                    ELSE MinOf(runhistory.seen)
                /\ optimal_config' = IF improvement = "none" THEN optimal_config
                                     ELSE runhistory.min_x
                /\ failcount_TurBO' = failcount
                /\ \E tenth \in Tenths :
                     IF DrawBelow(tenth, failcount)
                     THEN /\ failcount_BOinG' =
                                 BOinGFailcountAfterDraw(BOinGFailcountAfterTest(improvement), TRUE)
                          /\ run_TuRBO' = FALSE
                          /\ \E inside \in BOOLEAN :
                                turbo_optimizer' =
                                    generate_challengers(
                                        add_new_observations(AdjustedTurbo, runhistory.last_y,
                                                             inside))
                          /\ trial' = Did("turbo_exhausted", improvement, "switch", FALSE, FALSE)
                     ELSE /\ failcount_BOinG' =
                                 BOinGFailcountAfterDraw(BOinGFailcountAfterTest(improvement), FALSE)
                          /\ run_TuRBO' = (improvement # "major")
                          /\ \E t \in RestartedTurbos : turbo_optimizer' = generate_challengers(t)
                          /\ trial' = Did("turbo_exhausted", improvement, "stay", TRUE, TRUE)
    /\ UNCHANGED <<do_switching, runhistory>>
    /\ UNCHANGED <<extractVars, callVars, twinVars>>

ChooseTurboExhausted == ChooseTurboExhaustedBelow(MaxFail)

NoObservation_never(n) == FALSE

\* X.shape[0] == 0
NoObservation(n) == n = 0

\* No observation: one configuration of the random search is returned.
ChooseRandom ==
    /\ trial.branch = "call"
    /\ ~InTuRBO
    /\ NoObservation(runhistory.n)
    /\ trial' = Did("random", "-", "-", FALSE, FALSE)
    /\ UNCHANGED <<do_switching, run_TuRBO, failcount_BOinG, failcount_TurBO, optimal_value,
                   optimal_config, turbo_optimizer, runhistory>>
    /\ UNCHANGED <<extractVars, callVars, twinVars>>

\* Too few observations in a space without conditions: the global model is
\* trained and the challengers of a subspace over the whole space returned.
ChooseFullSpace ==
    /\ trial.branch = "call"
    /\ ~InTuRBO
    /\ ~NoObservation(runhistory.n)
    /\ TooFewPoints(runhistory.n) /\ NoConditions
    /\ trial' = Did("full_space", "-", "-", TRUE, FALSE)
    /\ UNCHANGED <<do_switching, run_TuRBO, failcount_BOinG, failcount_TurBO, optimal_value,
                   optimal_config, turbo_optimizer, runhistory>>
    /\ UNCHANGED <<extractVars, callVars, twinVars>>

RestartIncumbent_counted ==
    [failcount |-> failcount_BOinG + 1, value |-> MinOf(runhistory.seen),
     config |-> runhistory.min_x, improvement |-> "first"]

RestartIncumbent_noconfig ==
    [failcount |-> 0, value |-> MinOf(runhistory.seen), config |-> None,
     improvement |-> "first"]

\* The incumbent taken when none is set: the best observation; the count of
\* failures starts again.
RestartIncumbent ==
    [failcount |-> 0, value |-> MinOf(runhistory.seen), config |-> runhistory.min_x,
     improvement |-> "first"]

\* BOinG turn: the count of failures and the incumbent after the newest
\* observation is compared with the incumbent.
BOinGUpdate ==
    LET failcount == failcount_BOinG + 1
        increment == runhistory.last_y - optimal_value
    IN  IF increment < 0
        THEN IF optimal_config # None
             THEN LET qualifies ==
                          \/ RelativelyBetter(increment, 100, optimal_value)
                          \/ FarApart(runhistory.last_x, optimal_config)
                  IN  [failcount |-> IF qualifies THEN failcount - Len(types) ELSE failcount,
                       value |-> runhistory.last_y, config |-> runhistory.last_x,
                       improvement |-> IF qualifies THEN "major" ELSE "minor"]
             ELSE RestartIncumbent
        ELSE [failcount |-> failcount, value |-> optimal_value, config |-> optimal_config,
              improvement |-> "none"]

DrawDue_always(failcount) == TRUE

\* self.failcount_BOinG % (X.shape[-1] * 1) == 0: a draw is due.
DrawDue(failcount) == failcount % Len(types) = 0

ChooseRegionPure_counted ==
    /\ trial.branch = "call"
    /\ ~do_switching
    /\ ~NoObservation(runhistory.n)
    /\ ~(TooFewPoints(runhistory.n) /\ NoConditions)
    /\ failcount_BOinG < MaxFail
    /\ failcount_BOinG' = failcount_BOinG + 1
    /\ trial' = Did("region", "-", "-", TRUE, FALSE)
    /\ UNCHANGED <<do_switching, run_TuRBO, failcount_TurBO, optimal_value,
                   optimal_config, turbo_optimizer, runhistory>>
    /\ UNCHANGED <<extractVars, callVars, twinVars>>

\* BOinG turn without switching: the global model is trained, the subspace
\* around the first global challenger is extracted and its challengers
\* are returned.
ChooseRegionPure ==
    /\ trial.branch = "call"
    /\ ~do_switching
    /\ ~NoObservation(runhistory.n)
    /\ ~(TooFewPoints(runhistory.n) /\ NoConditions)
    /\ trial' = Did("region", "-", "-", TRUE, FALSE)
    /\ UNCHANGED <<do_switching, run_TuRBO, failcount_BOinG, failcount_TurBO, optimal_value,
                   optimal_config, turbo_optimizer, runhistory>>
    /\ UNCHANGED <<extractVars, callVars, twinVars>>

\* BOinG turn with switching: the same, after the update of the incumbent
\* and of the count of failures, and the draw that switches to TuRBO.
ChooseRegion ==
    /\ trial.branch = "call"
    /\ do_switching /\ ~run_TuRBO
    /\ ~NoObservation(runhistory.n)
    /\ failcount_BOinG < MaxFail
    /\ ~(TooFewPoints(runhistory.n) /\ NoConditions)
    /\ LET u == BOinGUpdate
           amplify_param == u.failcount \div Len(types)
       IN  /\ failcount_BOinG' = u.failcount
           /\ optimal_value' = u.value
           /\ optimal_config' = u.config
           /\ IF DrawDue(u.failcount)
              THEN \E tenth \in Tenths :
                     IF DrawBelow(tenth, amplify_param)
                     THEN /\ run_TuRBO' = TRUE
                          /\ failcount_TurBO' = failcount_TurBO \div 2
                          /\ turbo_optimizer' \in RestartedTurbos
                          /\ trial' = Did("region", u.improvement, "switch", TRUE, TRUE)
                     ELSE /\ trial' = Did("region", u.improvement, "stay", TRUE, FALSE)
                          /\ UNCHANGED <<run_TuRBO, failcount_TurBO, turbo_optimizer>>
              ELSE /\ trial' = Did("region", u.improvement, "-", TRUE, FALSE)
                   /\ UNCHANGED <<run_TuRBO, failcount_TurBO, turbo_optimizer>>
    /\ UNCHANGED <<do_switching, runhistory>>
    /\ UNCHANGED <<extractVars, callVars, twinVars>>

NextChooser ==
    \/ \E x \in Evaluated, y \in YValues : RecordObservation(x, y)
    \/ ChooseTurboInit
    \/ ChooseTurboContinue
    \/ ChooseTurboExhausted
    \/ ChooseRandom
    \/ ChooseFullSpace
    \/ ChooseRegionPure
    \/ ChooseRegion

SpecChooser == InitChooser /\ [][NextChooser]_vars

\* ------------------------------------------ claims on subspace_extraction
\* The full-space region and whether the stored region is still the full one.
FullRegion == ss_bounds_cont = InitBoundsCont /\ ss_bounds_cat = InitBoundsCat

FullMask == \A k \in DOMAIN X : ss_indices[k]

\* Whether a configuration array lies inside the stored region.
InRegion(p) ==
    /\ \A j \in DOMAIN cont_dims :
          ss_bounds_cont[j][1] <= p[cont_dims[j]] /\ p[cont_dims[j]] <= ss_bounds_cont[j][2]
    /\ \A j \in DOMAIN cat_dims : p[cat_dims[j]] \in ss_bounds_cat[j]

\* A tree frozen on a split: a shrink of it was refused for num_min.
FrozenOnSplit(i) == stop_update[i] /\ ~trees[i].is_leaf

\* C1: when num_min <= |X| and the max-count loop did not run, the returned
\* mask selects at least num_min observations.
C1_AtLeastNumMin ==
    (pc = "done" /\ phases = 1 /\ num_min <= Len(X)) => sum(ss_indices) >= num_min

\* C1 witness: a call returned without the max-count loop, with a positive
\* num_min, a shrunk region and a tree frozen because of num_min.
C1_Witness ==
    /\ pc = "done" /\ phases = 1
    /\ 1 <= num_min /\ num_min <= Len(X)
    /\ ~FullRegion
    /\ \E i \in Trees : FrozenOnSplit(i)

\* C2: once the max-count loop has run, the returned mask selects at most
\* num_max observations.
C2_AtMostNumMax == (pc = "done" /\ phases = 2) => sum(ss_indices) <= num_max

\* C3: in every state of the extraction each continuous interval lies in the
\* full-space interval of its dimension with low <= high, and each retained
\* categorical set is non-empty and within the dimension's choices.
C3_RegionInsideFullSpace ==
    /\ \A j \in DOMAIN cont_dims :
          /\ bounds[cont_dims[j]][1] <= ss_bounds_cont[j][1]
          /\ ss_bounds_cont[j][1] <= ss_bounds_cont[j][2]
          /\ ss_bounds_cont[j][2] <= bounds[cont_dims[j]][2]
    /\ \A j \in DOMAIN cat_dims :
          /\ ss_bounds_cat[j] # {}
          /\ ss_bounds_cat[j] \subseteq 0..(bounds[cat_dims[j]][1] - 1)

\* C3 witness: a call returned with a continuous interval shrunk from
\* below and a categorical set shrunk, some observation left outside.
C3_Witness ==
    /\ pc = "done"
    /\ \E j \in DOMAIN cont_dims : ss_bounds_cont[j][1] > bounds[cont_dims[j]][1]
    /\ \E j \in DOMAIN cat_dims : ss_bounds_cat[j] # InitBoundsCat[j]
    /\ ~FullMask

\* C4: the mask selects exactly the observations that lie inside the stored
\* region, in every state of both loops and at the return (every observation
\* enumerated lies inside the full-space bounds).
C4_MaskIsRegion == \A k \in DOMAIN X : ss_indices[k] <=> InRegion(X[k])

\* C4 witness: a call returned after the max-count loop with an observation
\* selected, on a bound of the shrunk region, and another one not selected.
C4_Witness ==
    /\ pc = "done" /\ phases = 2
    /\ \E k \in DOMAIN X : ~ss_indices[k]
    /\ \E k \in DOMAIN X, j \in DOMAIN cont_dims :
          /\ ss_indices[k]
          /\ ss_bounds_cont[j] # InitBoundsCont[j]
          /\ X[k][cont_dims[j]] \in {ss_bounds_cont[j][1], ss_bounds_cont[j][2]}

\* C5: when num_min exceeds the number of observations the call returns the
\* full-space region and the mask of all observations.
C5_FullRegionWhenTooFewPoints ==
    (pc = "done" /\ num_min > Len(X)) => (FullRegion /\ FullMask)

\* C5 witness: such a call returned after both loops, with observations and
\* with a cursor below the root of a tree.
C5_Witness ==
    /\ pc = "done" /\ phases = 2
    /\ num_min > Len(X) /\ Len(X) > 0
    /\ \E i \in Trees : node_indices[i] # 0

\* C6 as stated: called with num_min > num_max, the call returns the
\* full-space region.
C6_FullRegionWhenMinAboveMax == (pc = "done" /\ num_min > num_max) => FullRegion

\* C6 amended: called with num_min > num_max, the call returns; the region
\* is the full space whenever num_min >= |X|, and a region that is not the
\* full space selects more than num_min observations.
C6_Amended ==
    (pc = "done" /\ num_min > num_max) =>
        /\ (num_min >= Len(X) => FullRegion /\ FullMask)
        /\ (~FullRegion => sum(ss_indices) > num_min)

\* C6 witness: a call with num_min > num_max returned a region that is not
\* the full space.
C6_Witness == pc = "done" /\ num_min > num_max /\ ~FullRegion

\* The number of times tree i has been visited in the running while loop.
VisitsInLoop(i) == IF i \in indices_trees THEN passes - 1 ELSE passes

\* C7: the extraction terminates. A tree that a pass visits is frozen or has
\* its cursor moved to a child, so a tree not frozen after v visits of a
\* loop has its cursor at depth >= v; no loop makes more than MaxDepth + 1
\* passes; at most two loops run; a call that has not returned can take a
\* step, and it returns with every tree frozen.
C7_Terminates ==
    /\ passes <= MaxDepth + 1
    /\ phases <= 2
    /\ \A i \in Trees : ~stop_update[i] => NodeDepth(node_indices[i]) >= VisitsInLoop(i)
    /\ \A i \in Trees : NodeDepth(node_indices[i]) <= MaxDepth
    /\ pc # "done" => ENABLED NextExtract
    /\ pc = "done" => AllFrozen

\* C7 witness: the max-count loop needed MaxDepth + 1 passes.
C7_Witness == pc = "done" /\ phases = 2 /\ passes = MaxDepth + 1

\* The scenario of a call that needs no max-count loop: as many observations
\* as the model holds, more than a positive num_min and at most num_max, the
\* challenger being one of them (the best point seen).
ManyObservations ==
    /\ Len(X) = MaxObs
    /\ 1 <= num_min /\ num_min < Len(X)
    /\ num_max >= Len(X)
    /\ \E k \in DOMAIN X : X[k] = challenger

\* Tree i holds a split of a continuous dimension with its threshold strictly
\* inside the dimension's interval, and the traversal stopped on it.
FrozenOnInnerSplit(i) ==
    /\ FrozenOnSplit(i)
    /\ \E j \in DOMAIN cont_dims :
          /\ cont_dims[j] = trees[i].feature
          /\ bounds[cont_dims[j]][1] < trees[i].num_split
          /\ trees[i].num_split < bounds[cont_dims[j]][2]

\* C23: in the scenario, when the forest has a split with a threshold inside
\* a dimension's interval (here: one the traversal stopped on), the returned
\* region selects at least num_min observations and is strictly smaller than
\* the full space.
C23_SmallerRegion ==
    (pc = "done" /\ ManyObservations /\ \E i \in Trees : FrozenOnInnerSplit(i)) =>
        /\ sum(ss_indices) >= num_min
        /\ ~FullRegion

\* C23 as the code has it: in the scenario the returned region selects at
\* least num_min observations: all of them when it is the full space, more
\* than num_min when it is smaller. A split is taken only if more than
\* num_min observations lie on the challenger's side, so the region is the
\* full space when no split met passes that test.
C23_Amended ==
    (pc = "done" /\ ManyObservations) =>
        /\ sum(ss_indices) >= num_min
        /\ FullRegion => FullMask
        /\ ~FullRegion => sum(ss_indices) > num_min

\* In the scenario a call returned the full space although a tree holds a
\* split inside the interval of the continuous dimension.
C23_Witness ==
    /\ pc = "done" /\ ManyObservations
    /\ \E i \in Trees : FrozenOnInnerSplit(i)
    /\ FullRegion

\* The stored region after a step lies within the stored region before it.
RegionWithin ==
    /\ \A j \in DOMAIN cont_dims :
          /\ ss_bounds_cont[j][1] <= ss_bounds_cont'[j][1]
          /\ ss_bounds_cont'[j][2] <= ss_bounds_cont[j][2]
    /\ \A j \in DOMAIN cat_dims : ss_bounds_cat'[j] \subseteq ss_bounds_cat[j]

RegionUnchanged == UNCHANGED <<ss_bounds_cont, ss_bounds_cat>>

\* C24: no step of the max-count (second) loop changes the stored region.
C24_NeverShrunk == [][pc = "second" => RegionUnchanged]_vars

\* C24 as the code has it: a step of the max-count loop can shrink the stored
\* region. A split that leaves more than num_min observations on the
\* challenger's side is taken as in the first loop; only a split that fails
\* this test is passed without a shrink. The region never grows, and the
\* mask changes only together with the region.
C24_Amended ==
    [][pc = "second" =>
          /\ RegionWithin
          /\ ~RegionUnchanged => sum(ss_indices') > num_min
          /\ RegionUnchanged => UNCHANGED ss_indices]_vars

\* The max-count loop ran and shrank the region: the mask selected more than
\* num_max observations when the loop started and does so no longer.
C24_Witness ==
    /\ pc = "done" /\ phases = 2
    /\ sum(ss_indices) <= num_max
    /\ ~FullRegion

\* Whether the split of `node` cannot cut the stored region: the threshold of
\* a continuous split lies strictly outside the interval of its dimension,
\* the retained values of a categorical split's dimension lie all inside or
\* all outside the values the split sends left.
CannotCut(node) ==
    /\ ~node.is_leaf
    /\ IF \E j \in DOMAIN cont_dims : cont_dims[j] = node.feature
       THEN LET j == PositionIn(cont_dims, node.feature)
            IN  \/ node.num_split < ss_bounds_cont[j][1]
                \/ node.num_split > ss_bounds_cont[j][2]
       ELSE LET j == PositionIn(cat_dims, node.feature)
            IN  \/ ss_bounds_cat[j] \subseteq node.cat_split
                \/ ss_bounds_cat[j] \cap node.cat_split = {}

\* The child (0 left, 1 right) on whose side of such a split the whole
\* stored region lies.
SideOfRegion(node) ==
    IF \E j \in DOMAIN cont_dims : cont_dims[j] = node.feature
    THEN IF node.num_split < ss_bounds_cont[PositionIn(cont_dims, node.feature)][1]
         THEN 1 ELSE 0
    ELSE IF ss_bounds_cat[PositionIn(cat_dims, node.feature)] \subseteq node.cat_split
         THEN 0 ELSE 1

\* The step is the visit of tree i in which the loop body reads `node`.
VisitReads(i, node) ==
    /\ pc \in {"first", "second"}
    /\ i \in indices_trees
    /\ node \in NodesUnder(i)
    /\ indices_trees' = indices_trees \ {i}
    /\ VisitNode(i, node)

RegionShrunk == <<ss_bounds_cont, ss_bounds_cat>>' # <<ss_bounds_cont, ss_bounds_cat>>

\* The side of the split of `node` the challenger lies on, cut out of the
\* region stored before the step: the interval from or up to the threshold,
\* the retained values inside or outside the values the split sends left.
ChallengerSide(node) ==
    IF \E j \in DOMAIN cont_dims : cont_dims[j] = node.feature
    THEN LET j == PositionIn(cont_dims, node.feature)
         IN  [cont |-> [ss_bounds_cont EXCEPT
                           ![j] = IF challenger[node.feature] >= node.num_split
                                  THEN <<node.num_split, @[2]>>
                                  ELSE <<@[1], node.num_split>>],
              cat |-> ss_bounds_cat]
    ELSE LET j == PositionIn(cat_dims, node.feature)
         IN  [cont |-> ss_bounds_cont,
              cat |-> [ss_bounds_cat EXCEPT
                          ![j] = IF challenger[node.feature] \in node.cat_split
                                 THEN @ \cap node.cat_split
                                 ELSE @ \ node.cat_split]]

\* C32: the challenger, a configuration array of the space, lies inside the
\* stored region in every state of both while loops and at the return; a
\* visit that changes the region replaces it by the challenger's side of the
\* split it read.
C32_ChallengerInside ==
    /\ [](InRegion(challenger))
    /\ [][\A i \in Trees : \A node \in SplitNodes :
             (VisitReads(i, node) /\ RegionShrunk)
             => /\ ss_bounds_cont' = ChallengerSide(node).cont
                /\ ss_bounds_cat' = ChallengerSide(node).cat]_vars

\* A call returned a region whose continuous interval and whose categorical
\* set were both shrunk, the challenger lying on the end of the interval
\* that a split moved.
C32_Witness ==
    /\ pc = "done"
    /\ ss_bounds_cat # InitBoundsCat
    /\ \E j \in DOMAIN cont_dims :
          /\ ss_bounds_cont[j][1] < ss_bounds_cont[j][2]
          /\ \/ /\ ss_bounds_cont[j][2] < bounds[cont_dims[j]][2]
                /\ challenger[cont_dims[j]] = ss_bounds_cont[j][2]
             \/ /\ ss_bounds_cont[j][1] > bounds[cont_dims[j]][1]
                /\ challenger[cont_dims[j]] = ss_bounds_cont[j][1]

\* ------------------------------------------------- claims on choose_next
\* One call of choose_next, whatever its branch.
ChooseNext ==
    \/ ChooseTurboInit
    \/ ChooseTurboContinue
    \/ ChooseTurboExhausted
    \/ ChooseRandom
    \/ ChooseFullSpace
    \/ ChooseRegionPure
    \/ ChooseRegion

\* The counts of failures lie below the bound up to which they are followed.
WithinMaxFail == failcount_BOinG < MaxFail /\ failcount_TurBO < MaxFail

\* This step is a TuRBO turn of choose_next that finds the trust region
\* exhausted and completes.
ExhaustedTrial == trial.branch = "call" /\ trial'.branch = "turbo_exhausted"

\* C8: with switching enabled the chooser starts in BOinG (RegionSearch)
\* mode; no call of choose_next fails because of the switching state, and in
\* every reachable state in which a call is due, a call can be processed.
C8_AlwaysProceeds ==
    do_switching =>
        /\ runhistory.n = 0 => ~run_TuRBO
        /\ trial.branch # "error"
        /\ (trial.branch = "call" /\ WithinMaxFail) => ENABLED ChooseNext

\* An exhausted trust region found a better value while an incumbent was set.
C8_Witness ==
    /\ do_switching
    /\ trial.branch = "turbo_exhausted"
    /\ trial.improvement \in {"minor", "major"}
    /\ optimal_config # None

\* C9: a TuRBO turn with an exhausted trust region whose improvement test
\* passes ends in BOinG (RegionSearch) mode with failcount_BOinG halved
\* exactly once.
C9_HalvedOnce ==
    [][(ExhaustedTrial /\ TurboIncrement < 0 /\ TurboQualifies) =>
           (~run_TuRBO' /\ failcount_BOinG' = failcount_BOinG \div 2)]_vars

\* The improvement test passed and the draw that follows switched as well.
C9_Witness ==
    /\ trial.branch = "turbo_exhausted"
    /\ trial.improvement = "major"
    /\ trial.draw = "switch"

\* C10 as stated: a TuRBO turn with an exhausted trust region whose
\* improvement test does not pass increments failcount_TurBO by one.
C10_IncrementedUnlessPassed ==
    [][(ExhaustedTrial /\ ~(TurboIncrement < 0 /\ TurboQualifies)) =>
           failcount_TurBO' = failcount_TurBO + 1]_vars

\* C10 amended: failcount_TurBO is incremented by exactly one when no better
\* value was found (improvement >= 0) and is left as it was when a better
\* value was found but neither criterion holds; the draw switches only
\* with the resulting count positive.
C10_Amended ==
    [][ExhaustedTrial =>
           /\ TurboIncrement >= 0 => failcount_TurBO' = failcount_TurBO + 1
           /\ (TurboIncrement < 0 /\ ~TurboQualifies) => failcount_TurBO' = failcount_TurBO
           /\ trial'.draw = "switch" => failcount_TurBO' > 0]_vars

\* A turn found a better value that passes neither criterion, after an
\* earlier turn that found nothing better had incremented the count.
C10_Witness ==
    /\ trial.branch = "turbo_exhausted"
    /\ trial.improvement = "minor"
    /\ failcount_TurBO > 0

\* C11: a call that restarts the exhausted trust region ends in TuRBO
\* (TrustRegion) mode; no call that ends in BOinG mode has restarted it.
C11_RestartStaysInTuRBO == trial.restarted => run_TuRBO

\* The improvement test passed, the draw did not switch, and the trust
\* region was restarted.
C11_Witness ==
    /\ trial.branch = "turbo_exhausted"
    /\ trial.improvement = "major"
    /\ trial.draw = "stay"
    /\ trial.restarted

\* This step is a BOinG turn of choose_next that switches to TuRBO.
SwitchToTuRBO == trial.branch = "call" /\ ~run_TuRBO /\ run_TuRBO'

\* C12: a call switches from BOinG (RegionSearch) to TuRBO (TrustRegion)
\* only with failcount_BOinG, as updated by the call, a multiple of the
\* number of dimensions D and a draw below 0.1 * (failcount_BOinG / D), which
\* needs failcount_BOinG >= D; the call then halves failcount_TurBO
\* (rounding down) and creates a new trust region.
C12_SwitchToTuRBO ==
    [][SwitchToTuRBO =>
           /\ trial'.branch = "region" /\ trial'.draw = "switch"
           /\ failcount_BOinG' % Len(types) = 0
           /\ failcount_BOinG' >= Len(types)
           /\ \E tenth \in Tenths : 10 * tenth < 10 * (failcount_BOinG' \div Len(types))
           /\ failcount_TurBO' = failcount_TurBO \div 2
           /\ trial'.restarted
           /\ turbo_optimizer'.length = length_init
           /\ turbo_optimizer'.success_count = 0 /\ turbo_optimizer'.failure_count = 0]_vars

\* A call switched to TuRBO with a count of TuRBO failures left to halve.
C12_Witness ==
    /\ trial.branch = "region" /\ trial.draw = "switch"
    /\ run_TuRBO
    /\ failcount_TurBO # 0

\* This step is a call of choose_next made in BOinG mode with switching on.
BOinGTrial == trial.branch = "call" /\ do_switching /\ ~run_TuRBO /\ trial'.branch # "call"

\* The newest observation improves on the incumbent and passes the test of
\* the BOinG turn (an incumbent being set).
BOinGQualifies ==
    /\ runhistory.last_y - optimal_value < 0
    /\ optimal_config # None
    /\ \/ RelativelyBetter(runhistory.last_y - optimal_value, 100, optimal_value)
       \/ FarApart(runhistory.last_x, optimal_config)

\* C13 as stated, for the calls that reach the update of the count: every
\* call in BOinG mode increments failcount_BOinG by one, and decreases it by
\* D in addition only when the newest observation passes the improvement
\* test.
C13_IncrementedEveryTrial ==
    [][(BOinGTrial /\ trial'.branch = "region") =>
           failcount_BOinG' = failcount_BOinG + 1 - (IF BOinGQualifies THEN Len(types) ELSE 0)]_vars

\* C13 amended: a call in BOinG mode with an empty history, or with too few
\* observations in a space without conditions, leaves failcount_BOinG as it
\* was; a call that finds a better value while no incumbent is set resets
\* it to 0; every other call increments it by one and decreases it by D in
\* addition exactly when the newest observation passes the improvement test.
C13_Amended ==
    [][BOinGTrial =>
           IF trial'.branch # "region" THEN failcount_BOinG' = failcount_BOinG
           ELSE IF runhistory.last_y - optimal_value < 0 /\ optimal_config = None
                THEN failcount_BOinG' = 0
           ELSE failcount_BOinG' =
                    failcount_BOinG + 1 - (IF BOinGQualifies THEN Len(types) ELSE 0)]_vars

\* A call in BOinG mode found an improvement that passes the test, after the
\* count had been reset by the call that took the first incumbent.
C13_Witness ==
    /\ trial.branch = "region"
    /\ trial.improvement = "major"
    /\ failcount_BOinG < 0

\* The branches of choose_next that do not involve the trust region.
RegionBranches == {"random", "full_space", "region"}

\* C25: without switching the chooser only searches regions: no call takes
\* a TuRBO branch or restarts the trust region, no call makes a switching
\* draw, and the switching state (mode, counts of failures, incumbent kept
\* for the improvement test, trust region) stays as constructed.
C25_PureRegionSearch ==
    ~do_switching =>
        /\ trial.branch \in RegionBranches \cup {"call"}
        /\ trial.draw = "-"
        /\ ~trial.restarted
        /\ ~run_TuRBO
        /\ failcount_BOinG = 0 /\ failcount_TurBO = 0
        /\ optimal_value = Infinity /\ optimal_config = None
        /\ turbo_optimizer = NewTurbo(Infinity, 0)

\* Without switching, a call on a full history extracted a region.
C25_Witness ==
    /\ ~do_switching
    /\ trial.branch = "region"
    /\ runhistory.n = MaxHist
    /\ Cardinality(runhistory.seen) > 1

\* An exhausted-trust-region call whose improvement test found a better
\* value, the new best point not being far from the old one: the relative
\* criterion alone decides.
RelativeCriterionDecides ==
    /\ ExhaustedTrial
    /\ TurboIncrement < 0
    /\ ~FarApart(runhistory.min_x, optimal_config)

\* C26: the relative criterion of the exhausted-trust-region test compares
\* the improvement with 1e-3 of the best value as it was before the call.
C26_PreviousBest ==
    [][RelativeCriterionDecides =>
          (trial'.improvement = "major" <=>
               RelativelyBetter(TurboIncrement, 1000, optimal_value))]_vars

\* C26 as the code has it: the relative criterion compares the improvement
\* with 1e-3 of the best value as the call has just updated it (the least
\* raw cost of the history).
C26_Amended ==
    [][RelativeCriterionDecides =>
          /\ optimal_value' = MinOf(runhistory.seen)
          /\ trial'.improvement = "major" <=>
                 RelativelyBetter(TurboIncrement, 1000, optimal_value')]_vars

\* An exhausted trust region found -1000 after a best value of -999: the
\* improvement of 1 is more than 1e-3 of 999 but not more than 1e-3 of
\* 1000, and the test did not pass.
C26_Witness ==
    /\ trial.branch = "turbo_exhausted"
    /\ trial.improvement = "minor"
    /\ optimal_value = 0 - 1000

\* This step is a BOinG turn of choose_next that runs the switching update.
UpdateTrial == BOinGTrial /\ trial'.branch = "region"

\* The update takes the first incumbent: a better value, no incumbent set.
FirstIncumbent == runhistory.last_y - optimal_value < 0 /\ optimal_config = None

\* C27 as stated: every BOinG turn that runs the switching update advances
\* failcount_BOinG by one modulo the number of dimensions D, and makes the
\* switching draw exactly when the count has reached a multiple of D.
C27_CongruentEveryTrial ==
    [][UpdateTrial =>
          /\ failcount_BOinG' % Len(types) = (failcount_BOinG + 1) % Len(types)
          /\ (trial'.draw # "-") <=> (failcount_BOinG' % Len(types) = 0)]_vars

\* C27 as the code has it: the draw is made exactly in the update turns that
\* leave failcount_BOinG a multiple of D. Every update turn advances the
\* count by one modulo D, except the turn that takes the first incumbent:
\* it finds the count at 0, leaves it at 0 and makes a draw. From that turn
\* on the draw is made in every D-th update turn of the run.
C27_Amended ==
    [][UpdateTrial =>
          /\ (trial'.draw # "-") <=> (failcount_BOinG' % Len(types) = 0)
          /\ IF FirstIncumbent
             THEN failcount_BOinG = 0 /\ failcount_BOinG' = 0
             ELSE failcount_BOinG' % Len(types) = (failcount_BOinG + 1) % Len(types)]_vars

\* An update turn without improvement brought the count to D, made the draw
\* and stayed in BOinG.
C27_Witness ==
    /\ trial.branch = "region"
    /\ trial.draw = "stay"
    /\ trial.improvement = "none"
    /\ failcount_BOinG = Len(types)
    /\ ~run_TuRBO

\* C34 (every raw cost recorded is finite): whenever TuRBO is the running
\* optimizer an incumbent is set, self.optimal_config is a configuration
\* array and self.optimal_value a recorded cost. The first switching update
\* of a BOinG turn sets both and its draw cannot switch to TuRBO, so the
\* exhausted trust region never compares with a missing configuration.
C34_IncumbentSetInTuRBO ==
    /\ [](/\ InTuRBO => (optimal_config # None /\ optimal_value \in YValues)
          /\ trial.branch # "error")
    /\ [][(UpdateTrial /\ optimal_config = None)
            => /\ optimal_config' \in Evaluated
               /\ optimal_value' \in YValues
               /\ trial'.draw = "stay"
               /\ ~run_TuRBO']_vars

\* An exhausted trust region found a better value, computed the distance to
\* the incumbent set before and restarted TuRBO.
C34_Witness ==
    /\ InTuRBO
    /\ trial.branch = "turbo_exhausted"
    /\ trial.improvement = "minor"
    /\ trial.restarted
    /\ optimal_config \in Evaluated

\* C35 as stated: self.failcount_BOinG and self.failcount_TurBO are never
\* negative.
C35_NonNegative == failcount_BOinG >= 0 /\ failcount_TurBO >= 0

\* C35 as the code has it: the counts are integers that can be negative.
\* self.failcount_TurBO falls only by one, in the turn of an exhausted trust
\* region that finds a qualifying improvement and leaves TuRBO, or by the
\* halving at the switch to TuRBO, and never lies below -2.
\* self.failcount_BOinG falls only by D - 1, in a BOinG turn whose update
\* finds a qualifying improvement, or by a halving in the turn of an
\* exhausted trust region; a halving (floor division) lowers a positive count
\* only.
C35_Amended ==
    /\ [](failcount_TurBO >= 0 - 2)
    /\ [][/\ failcount_TurBO' < failcount_TurBO
                => \/ /\ ExhaustedTrial
                      /\ trial'.improvement = "major"
                      /\ failcount_TurBO' = failcount_TurBO - 1
                      /\ ~run_TuRBO'
                   \/ /\ UpdateTrial
                      /\ trial'.draw = "switch"
                      /\ failcount_TurBO > 0
                      /\ failcount_TurBO' = failcount_TurBO \div 2
          /\ failcount_BOinG' < failcount_BOinG
                => \/ /\ UpdateTrial
                      /\ trial'.improvement = "major"
                      /\ failcount_BOinG' = failcount_BOinG + 1 - Len(types)
                   \/ /\ ExhaustedTrial
                      /\ failcount_BOinG > 0
                      /\ failcount_BOinG' \in {failcount_BOinG \div 2,
                                               (failcount_BOinG \div 2) \div 2}]_vars

\* An exhausted trust region found a qualifying improvement while the count
\* of TuRBO failures was -1, after an earlier such turn and a switch back to
\* TuRBO: the count is -2.
C35_Witness ==
    /\ trial.branch = "turbo_exhausted"
    /\ trial.improvement = "major"
    /\ failcount_TurBO = 0 - 2
    /\ ~run_TuRBO

\* C36: self.optimal_value never rises. It is replaced only in the switching
\* update of a BOinG turn or in the turn of an exhausted trust region, by a
\* strictly smaller recorded cost, and self.optimal_config is replaced only
\* in a step that also lowers self.optimal_value.
C36_BestNeverRises ==
    [][/\ optimal_value' <= optimal_value
       /\ optimal_value' # optimal_value
             => /\ UpdateTrial \/ ExhaustedTrial
                /\ trial'.improvement # "none"
                /\ optimal_value' \in runhistory.seen
       /\ optimal_config' # optimal_config => optimal_value' < optimal_value]_vars

\* An exhausted trust region replaced an incumbent set before by the best
\* observation of the run, which is not the newest one.
C36_Witness ==
    /\ trial.branch = "turbo_exhausted"
    /\ trial.improvement # "none"
    /\ optimal_value = MinOf(runhistory.seen)
    /\ optimal_config = runhistory.min_x
    /\ optimal_value < runhistory.last_y
    /\ optimal_config # runhistory.last_x

\* ------------------------------- _collect_all_data_to_train_model
\* Number of budget levels, numbered 1..NumBudgets from lowest to highest.
NumBudgets == 3
\* Largest number of rows the transformer yields for one budget.
MaxRows == 2

Budgets == 1..NumBudgets

\* No run key of the history has the budget.
Absent == 0 - 1

\* self.runhistory as the function reads it: per budget, Absent or the number
\* of rows rh2EPM.transform_with_raw yields for budget_subset=[b].
Histories == [Budgets -> {Absent} \cup 0..MaxRows]

\* sorted(list(set(...)), reverse=True): the elements of S, highest first.
RECURSIVE SortedReverse(_)
SortedReverse(S) ==
    IF S = {} THEN <<>>
    ELSE LET m == CHOOSE a \in S : \A b \in S : b <= a
         IN  <<m>> \o SortedReverse(S \ {m})

\* The budgets of the run keys, sorted from highest to lowest.
available_budgets(history) == SortedReverse({b \in Budgets : history[b] # Absent})

EnoughSamples_strict(rows, min_samples_model) == rows > min_samples_model

\* X.shape[0] >= self.min_samples_model
EnoughSamples(rows, min_samples_model) == rows >= min_samples_model

\* The empty arrays returned when no budget has enough samples.
EmptyArrays == [budget |-> 0, rows |-> 0, configs_of |-> 0]

\* for b in available_budgets: the data of the first budget with enough
\* samples, and the configurations of self.currently_considered_budgets.
RECURSIVE CollectFrom(_, _, _)
CollectFrom(history, budgets, min_samples_model) ==
    IF budgets = <<>> THEN EmptyArrays
    ELSE IF EnoughSamples(history[Head(budgets)], min_samples_model)
         THEN [budget |-> Head(budgets), rows |-> history[Head(budgets)],
               configs_of |-> Head(budgets)]
         ELSE CollectFrom(history, Tail(budgets), min_samples_model)

CollectCalls ==
    {[fn |-> "_collect_all_data_to_train_model", history |-> h, min_samples_model |-> m] :
        h \in Histories, m \in 0..(MaxRows + 1)}

\* One call of _collect_all_data_to_train_model.
Collect ==
    /\ call.fn = "_collect_all_data_to_train_model"
    /\ ~result.ended
    /\ result' = Returned(CollectFrom(call.history, available_budgets(call.history),
                                      call.min_samples_model))
    /\ UNCHANGED <<call, extractVars, chooserVars, twinVars>>

\* The budget has run keys and enough rows in the call's history.
Qualifies(b) ==
    call.history[b] # Absent /\ call.history[b] >= call.min_samples_model

\* C14: _collect_all_data_to_train_model returns the data of one budget, the
\* highest budget present that has at least min_samples_model rows, and
\* empty arrays when no budget has.
C14_HighestBudgetWithEnough ==
    (call.fn = "_collect_all_data_to_train_model" /\ result.ended) =>
        /\ result.raised = "-"
        /\ IF \E b \in Budgets : Qualifies(b)
           THEN /\ result.value.budget \in Budgets
                /\ Qualifies(result.value.budget)
                /\ \A b \in Budgets : b > result.value.budget => ~Qualifies(b)
                /\ result.value.rows = call.history[result.value.budget]
                /\ result.value.configs_of = result.value.budget
           ELSE result.value = EmptyArrays

\* The call skipped a higher budget present with too few rows and returned
\* a budget below which another one has enough rows as well.
C14_Witness ==
    /\ call.fn = "_collect_all_data_to_train_model" /\ result.ended
    /\ result.value.budget \in Budgets
    /\ \E b \in Budgets :
          b > result.value.budget /\ call.history[b] # Absent /\ ~Qualifies(b)
    /\ \E b \in Budgets : b < result.value.budget /\ Qualifies(b)

\* What a call of choose_next returns, by the branch it took: the source of
\* the challengers and, where the code fixes it, their number (0: not fixed).
ReturnedBy(t) ==
    CASE t.branch = "random" -> [from |-> "self._random_search.maximize", num_points |-> 1]
      [] t.branch = "full_space" -> [from |-> "BOinGSubspace(bounds=self.bounds)", num_points |-> 0]
      [] t.branch = "region" -> [from |-> "BOinGSubspace(bounds_ss)", num_points |-> 0]
      [] t.branch \in {"turbo_init", "turbo_continue", "turbo_exhausted"} ->
             [from |-> "self.turbo_optimizer", num_points |-> 0]
      [] OTHER -> [from |-> "-", num_points |-> 0]

\* Whether a call of choose_next called subspace_extraction: for the region
\* around the global challenger, or inside restart_TuRBOinG.
RunsExtraction(t) == t.branch = "region" \/ t.restarted

C16_FullSpaceWhenFewPoints ==
    [][(/\ trial.branch = "call" /\ ~(do_switching /\ run_TuRBO)
        /\ runhistory.n > 0 /\ 8 * runhistory.n < 10 * min_configs_local
        /\ NoConditions
        /\ trial'.branch # "call") =>
           /\ trial'.branch = "full_space"
           /\ ReturnedBy(trial').from = "BOinGSubspace(bounds=self.bounds)"
           /\ ~RunsExtraction(trial')
           /\ UNCHANGED extractVars]_vars

\* Such a call was answered on a history of min_configs_local observations,
\* with switching enabled.
C16_Witness ==
    /\ do_switching
    /\ trial.branch = "full_space"
    /\ runhistory.n = min_configs_local

\* ------------------------- choose_next in a space with conditions
\* The entry of a configuration array for an inactive hyperparameter (NaN).
Inactive == 0 - 1

\* np.isfinite
isfinite(v) == v # Inactive

\* The configuration arrays of the space when its hyperparameters can be
\* inactive. The value of a numerical hyperparameter plays no part here:
\* one value stands for all.
CondArrays ==
    {p \in [Dims -> {Inactive} \cup 0..NumCats] :
        \A d \in Dims : p[d] = Inactive \/ (IF types[d] = 0 THEN p[d] = 0 ELSE p[d] < NumCats)}

\* An observed array is absent from X, present once, or present more often
\* than the threshold of the few observations, max(5, number of active
\* numerical dimensions), can be.
ManyRows == 6

RowCounts == {0, 1, ManyRows}

\* sum(indices): the number of rows of X, given per array, that hold one of
\* the arrays.
RECURSIVE CountRows(_, _)
CountRows(rows, arrays) ==
    IF arrays = {} THEN 0
    ELSE LET one == CHOOSE a \in arrays : TRUE
         IN  rows[one] + CountRows(rows, arrays \ {one})

\* np.all((challanger_activate_hps - rh_activate_hps) == 0, axis=1)
SamePattern(row, first) == \A d \in Dims : isfinite(row[d]) <=> isfinite(first[d])

\* The active hyperparameters that are NumericalHyperparameter instances.
activate_dims(first) == {d \in Dims : isfinite(first[d]) /\ types[d] = 0}

\* The rows kept after the loop over the active hyperparameters: same
\* pattern, and the challenger's value in every active hyperparameter that
\* is not numerical.
SameHierarchy(row, first) ==
    /\ SamePattern(row, first)
    /\ \A d \in Dims : (isfinite(first[d]) /\ types[d] # 0) => row[d] = first[d]

Max(a, b) == IF a >= b THEN a ELSE b

\* max(5, len(activate_dims))
FewRows(first) == Max(5, Cardinality(activate_dims(first)))

PutBack_dropped(first, rest) == rest

\* chain([cfg_challenger_global_first], challengers_global)
PutBack(first, rest) == <<first>> \o rest

\* choose_next from next(challengers_global) on, len(get_conditions()) > 0:
\* the global challengers again, or the subspace extracted from the rows
\* kept.
ConditionalRegion(rows, challengers_global) ==
    LET first == Head(challengers_global)
        rest == Tail(challengers_global)
        pattern == {row \in CondArrays : SamePattern(row, first)}
        hierarchy == {row \in CondArrays : SameHierarchy(row, first)}
    IN  IF CountRows(rows, pattern) = 0
        THEN [from |-> "challengers_global", challengers |-> PutBack(first, rest)]
        ELSE IF \/ Cardinality(activate_dims(first)) = 0
                \/ CountRows(rows, hierarchy) <= FewRows(first)
        THEN [from |-> "challengers_global", challengers |-> PutBack(first, rest)]
        ELSE [from |-> "BOinGSubspace(bounds_ss)",
              num_min |-> (min_configs_local \div Len(types)) * Cardinality(activate_dims(first)),
              initial_data |-> CountRows(rows, hierarchy)]

\* The global challengers: the first one, then up to two more.
OtherChallengers == {<<>>, <<"second">>, <<"second", "third">>}

ConditionalCalls ==
    {[fn |-> "choose_next, conditions", rows |-> r, challengers_global |-> <<f>> \o o] :
        r \in [CondArrays -> RowCounts], f \in CondArrays, o \in OtherChallengers}

\* One call of choose_next in a space with conditions, from the first global
\* challenger on.
ChooseConditional ==
    /\ call.fn = "choose_next, conditions"
    /\ ~result.ended
    /\ result' = Returned(ConditionalRegion(call.rows, call.challengers_global))
    /\ UNCHANGED <<call, extractVars, chooserVars, twinVars>>

\* The number of rows of the call with the active pattern of its first
\* global challenger.
RowsOfSamePattern ==
    LET first == Head(call.challengers_global)
    IN  CountRows(call.rows,
                  {row \in CondArrays :
                      \A d \in Dims : (row[d] = Inactive) <=> (first[d] = Inactive)})

\* The number of active numerical hyperparameters of the first challenger.
ActiveNumerical ==
    Cardinality({d \in Dims : Head(call.challengers_global)[d] # Inactive /\ types[d] = 0})

\* C17: in a space with conditions, when no observation has the active
\* pattern of the first global challenger, or at most
\* max(5, active numerical dimensions) have, or no numerical dimension is
\* active, the call builds no subspace and returns the global challengers
\* complete and in order, the first one put back in front.
C17_FallsBackToGlobal ==
    (/\ call.fn = "choose_next, conditions" /\ result.ended
     /\ \/ RowsOfSamePattern = 0
        \/ RowsOfSamePattern <= Max(5, ActiveNumerical)
        \/ ActiveNumerical = 0) =>
        /\ result.raised = "-"
        /\ result.value = [from |-> "challengers_global", challengers |-> call.challengers_global]

\* The fallback was taken with more than one global challenger, a numerical
\* dimension active, and some but too few observations of the first
\* challenger's pattern.
C17_Witness ==
    /\ call.fn = "choose_next, conditions" /\ result.ended
    /\ Len(call.challengers_global) > 1
    /\ RowsOfSamePattern > 0
    /\ RowsOfSamePattern <= 5
    /\ ActiveNumerical > 0
    /\ result.value.from = "challengers_global"

\* ------------------------------------- two runs of the same chooser
\* The switching state of the chooser.
SwitchingState ==
    [run_TuRBO |-> run_TuRBO, failcount_BOinG |-> failcount_BOinG,
     failcount_TurBO |-> failcount_TurBO, optimal_value |-> optimal_value,
     optimal_config |-> optimal_config, turbo_optimizer |-> turbo_optimizer,
     failed |-> FALSE]

\* The TuRBO turn of choose_next on switching state s and history h, with
\* self.rng's draw `tenth`; `best` and `init` describe the trust region a
\* restart_TuRBOinG call builds, `inside` whether the newest observation lies
\* in the trust region.
TurboTurnOf(s, h, tenth, best, init, inside) ==
    LET added(t) == generate_challengers(add_new_observations(t, h.last_y, inside))
        adjusted == adjust_length(s.turbo_optimizer, h.last_y)
        increment == adjusted.ss_y_min - s.optimal_value
        better == increment < 0
        value == IF better THEN MinOf(h.seen) ELSE s.optimal_value
        config == IF better THEN h.min_x ELSE s.optimal_config
        qualifies == better /\ (\/ RelativelyBetter(increment, 1000, value)
                             \/ FarApart(h.min_x, s.optimal_config))
        failcount_T == IF qualifies THEN s.failcount_TurBO - 1
                       ELSE IF better THEN s.failcount_TurBO
                       ELSE s.failcount_TurBO + 1
        failcount_B == IF qualifies THEN s.failcount_BOinG \div 2 ELSE s.failcount_BOinG
    IN  IF s.turbo_optimizer.init_configs > 0
        THEN [s EXCEPT !.turbo_optimizer = added(s.turbo_optimizer)]
        ELSE IF ~Exhausted(adjusted)
        THEN [s EXCEPT !.turbo_optimizer = added(adjusted)]
        ELSE IF better /\ s.optimal_config = None
        THEN [s EXCEPT !.optimal_value = value, !.turbo_optimizer = adjusted, !.failed = TRUE]
        ELSE IF DrawBelow(tenth, failcount_T)
        THEN [run_TuRBO |-> FALSE, failcount_BOinG |-> failcount_B \div 2,
              failcount_TurBO |-> failcount_T, optimal_value |-> value,
              optimal_config |-> config, turbo_optimizer |-> added(adjusted),
              failed |-> FALSE]
        ELSE [run_TuRBO |-> ~qualifies, failcount_BOinG |-> failcount_B,
              failcount_TurBO |-> failcount_T, optimal_value |-> value,
              optimal_config |-> config,
              turbo_optimizer |-> generate_challengers(NewTurbo(best, init)),
              failed |-> FALSE]

\* The BOinG turn of choose_next on switching state s and history h.
BOinGTurnOf(s, h, tenth, best, init) ==
    LET increment == h.last_y - s.optimal_value
        better == increment < 0
        initial == better /\ s.optimal_config = None
        qualifies == /\ better /\ ~initial
                  /\ \/ RelativelyBetter(increment, 100, s.optimal_value)
                     \/ FarApart(h.last_x, s.optimal_config)
        failcount == IF initial THEN 0
                     ELSE IF qualifies THEN s.failcount_BOinG + 1 - Len(types)
                     ELSE s.failcount_BOinG + 1
        value == IF initial THEN MinOf(h.seen) ELSE IF better THEN h.last_y ELSE s.optimal_value
        config == IF initial THEN h.min_x ELSE IF better THEN h.last_x ELSE s.optimal_config
        switch == /\ failcount % Len(types) = 0
                  /\ DrawBelow(tenth, failcount \div Len(types))
    IN  IF NoObservation(h.n) \/ (TooFewPoints(h.n) /\ NoConditions)
        THEN s
        ELSE [run_TuRBO |-> switch, failcount_BOinG |-> failcount,
              failcount_TurBO |-> IF switch THEN s.failcount_TurBO \div 2
                                  ELSE s.failcount_TurBO,
              optimal_value |-> value, optimal_config |-> config,
              turbo_optimizer |-> IF switch THEN NewTurbo(best, init) ELSE s.turbo_optimizer,
              failed |-> FALSE]

\* choose_next with switching, as a function of the switching state.
ChooseNextOf(s, h, tenth, best, init, inside) ==
    IF s.run_TuRBO THEN TurboTurnOf(s, h, tenth, best, init, inside)
    ELSE BOinGTurnOf(s, h, tenth, best, init)

\* The best values the data of a restarted trust region can have.
RegionBests(h) == IF h.seen = {} THEN {Infinity} ELSE h.seen

\* Two choosers with switching, constructed alike.
InitTwoRuns ==
    /\ do_switching = TRUE
    /\ run_TuRBO = FALSE
    /\ failcount_BOinG = 0
    /\ failcount_TurBO = 0
    /\ optimal_value = Infinity
    /\ optimal_config = None
    /\ turbo_optimizer = NewTurbo(Infinity, 0)
    /\ runhistory = EmptyHistory
    /\ trial = Due
    /\ twin = [run_TuRBO |-> FALSE, failcount_BOinG |-> 0, failcount_TurBO |-> 0,
               optimal_value |-> Infinity, optimal_config |-> None,
               turbo_optimizer |-> NewTurbo(Infinity, 0), failed |-> FALSE,
               calls |-> 0]
    /\ call = NoCall
    /\ result = Pending
    /\ X = <<>>
    /\ challenger = None
    /\ num_min = 0
    /\ num_max = 0
    /\ trees = <<>>
    /\ node_indices = <<>>
    /\ stop_update = <<>>
    /\ ss_indices = <<>>
    /\ ss_bounds_cont = InitBoundsCont
    /\ ss_bounds_cat = InitBoundsCat
    /\ indices_trees = {}
    /\ passes = 0
    /\ phases = 0
    /\ pc = "idle"

\* The two runs are followed through MaxCalls calls of choose_next.
MaxCalls == 10

\* The draws that differ in their effect on counts below MaxFail.
DistinctDraws == {tenth \in Tenths : tenth <= MaxFail}

\* The configurations both runs are told: two opposite corners.
EvaluatedByBoth == {p \in Evaluated : (p[1] = 0) <=> (p[2] = 0)}

\* Both runs are told the same observation.
RecordForBoth(x, y) ==
    /\ trial.branch # "call"
    /\ runhistory' = Recorded(runhistory, x, y)
    /\ trial' = Due
    /\ UNCHANGED <<do_switching, run_TuRBO, failcount_BOinG, failcount_TurBO, optimal_value,
                   optimal_config, turbo_optimizer, twin>>
    /\ UNCHANGED <<extractVars, callVars>>

\* Both runs call choose_next; self.rng, seeded alike, gives both the same
\* draw. The trust region a restart builds comes from the probes of
\* config_space.sample_configuration and from the tree order of
\* np.random.shuffle, which the seed of self.rng does not fix: its data, and
\* their best value, may differ between the runs.
ChooseInBoth ==
    /\ trial.branch = "call"
    /\ failcount_BOinG < MaxFail /\ failcount_TurBO < MaxFail
    /\ twin.failcount_BOinG < MaxFail /\ twin.failcount_TurBO < MaxFail
    /\ ~twin.failed
    /\ twin.calls < MaxCalls
    /\ \E tenth \in DistinctDraws, inside \in BOOLEAN,
          best1 \in RegionBests(runhistory), best2 \in RegionBests(runhistory) :
          LET s1 == ChooseNextOf(SwitchingState, runhistory, tenth, best1, 0, inside)
              s2 == ChooseNextOf(twin, runhistory, tenth, best2, 0, inside)
          IN  /\ ~s1.failed
              /\ run_TuRBO' = s1.run_TuRBO
              /\ failcount_BOinG' = s1.failcount_BOinG
              /\ failcount_TurBO' = s1.failcount_TurBO
              /\ optimal_value' = s1.optimal_value
              /\ optimal_config' = s1.optimal_config
              /\ turbo_optimizer' = s1.turbo_optimizer
              /\ twin' = [calls |-> twin.calls + 1] @@ s2
    /\ trial' = Did("both", "-", "-", FALSE, FALSE)
    /\ UNCHANGED <<do_switching, runhistory>>
    /\ UNCHANGED <<extractVars, callVars>>

NextTwoRuns ==
    \/ \E x \in EvaluatedByBoth, y \in YValues : RecordForBoth(x, y)
    \/ ChooseInBoth

SpecTwoRuns == InitTwoRuns /\ [][NextTwoRuns]_vars

\* Every call of choose_next of the chooser with switching is a value of
\* ChooseNextOf.
ChooseNextIsChooseNextOf ==
    [][(do_switching /\ trial.branch = "call" /\ trial'.branch \notin {"call", "error"}) =>
           \E tenth \in Tenths, inside \in BOOLEAN, init \in 0..MaxInit,
              best \in RegionBests(runhistory) :
              SwitchingState' =
                  ChooseNextOf(SwitchingState, runhistory, tenth, best, init, inside)]_vars

\* C18: two runs of the chooser with the same seed of self.rng and the same
\* observations are in the same mode (BOinG or TuRBO) after every call.
C18_SameDecisions == twin # None => twin.run_TuRBO = run_TuRBO

\* Both runs switched to TuRBO in the same call.
C18_Witness == twin # None /\ twin.run_TuRBO /\ run_TuRBO /\ trial.branch = "both"

\* ------------------------------------------------ BOinGChooser.__init__
\* The classes of the model argument: the random forest and another model.
ModelClasses == {"RandomForestWithInstances", "GaussianProcess"}

\* The classes of the runhistory2epm argument: the transformer that keeps the
\* raw values and another transformer.
TransformerClasses == {"RunHistory2EPM4CostWithRaw", "RunHistory2EPM4LogCost"}

isinstance_any(object, class) == TRUE

\* isinstance(object, class), the object given by its class.
isinstance(object, class) == object = class

\* super().__init__(...): the attributes the checks of the constructor read.
EPMChooser_init(model, runhistory2epm) == [model |-> model, rh2EPM |-> runhistory2epm]

\* The calls of the constructor.
InitCallsOfChooser ==
    [fn : {"__init__"}, model : ModelClasses, runhistory2epm : TransformerClasses]

\* BOinGChooser(...): the checks that follow super().__init__; a constructed
\* chooser has processed no trial.
Construct ==
    /\ call.fn = "__init__"
    /\ ~result.ended
    /\ LET self == EPMChooser_init(call.model, call.runhistory2epm)
       IN  result' =
               IF ~isinstance(self.model, "RandomForestWithInstances")
               THEN Raised("ValueError")
               ELSE IF ~isinstance(self.rh2EPM, "RunHistory2EPM4CostWithRaw")
               THEN Raised("ValueError")
               ELSE Returned([model |-> self.model, rh2EPM |-> self.rh2EPM, trials |-> 0])
    /\ UNCHANGED <<call, extractVars, chooserVars, twinVars>>

\* The trials a constructed chooser is followed through.
MaxTrials == 2

\* choose_next is called on the chooser the constructor returned.
ProcessTrial ==
    /\ call.fn = "__init__"
    /\ result.ended
    /\ result.raised = "-"
    /\ result.value.trials < MaxTrials
    /\ result' = Returned([result.value EXCEPT !.trials = @ + 1])
    /\ UNCHANGED <<call, extractVars, chooserVars, twinVars>>

\* The arguments of the constructor call are the supported ones.
Supported ==
    /\ call.model = "RandomForestWithInstances"
    /\ call.runhistory2epm = "RunHistory2EPM4CostWithRaw"

\* C19: a constructor call whose model is not a RandomForestWithInstances or
\* whose run-history transformer is not RunHistory2EPM4CostWithRaw ends by
\* raising ValueError; every chooser that exists, and so every chooser that
\* processes a trial, has the supported model and transformer.
C19_UnsupportedRejected ==
    (call.fn = "__init__" /\ result.ended) =>
        /\ ~Supported => result.raised = "ValueError"
        /\ result.raised = "-" =>
               /\ result.value.model = "RandomForestWithInstances"
               /\ result.value.rh2EPM = "RunHistory2EPM4CostWithRaw"

\* The constructor was called with the random forest and a transformer that
\* does not keep the raw values, and raised ValueError.
C19_Witness ==
    /\ call.fn = "__init__" /\ result.ended
    /\ call.model = "RandomForestWithInstances"
    /\ call.runhistory2epm # "RunHistory2EPM4CostWithRaw"
    /\ result.raised = "ValueError"

\* ----------------------------------- AbstractAcquisitionFunction.__call__
\* np.finfo(float).max on the model's scale of floats.
FloatMax == 2

\* Largest number of configurations of one call.
MaxConfigurations == 2

\* The floats: NaN, and the numbers from -inf to +inf; the infinities lie
\* beyond the largest finite float.
PositiveInfinity == FloatMax + 1

NegativeInfinity == 0 - PositiveInfinity

NotANumber == [nan |-> TRUE, v |-> 0]

Number(v) == [nan |-> FALSE, v |-> v]

Floats == {NotANumber} \cup {Number(v) : v \in NegativeInfinity..PositiveInfinity}

\* np.isnan
isnan(f) == f.nan

\* The finite floats.
FiniteFloats == {Number(v) : v \in (0 - FloatMax)..FloatMax}

\* a <= b on floats; every comparison with NaN is false.
LessEqual(a, b) == ~a.nan /\ ~b.nan /\ a.v <= b.v

\* The values self._compute(X) can give, one per configuration.
AcquisitionValues ==
    UNION {[1..n -> Floats] : n \in 1..MaxConfigurations}

\* The calls of the acquisition function.
AcquisitionCalls == [fn : {"__call__"}, acq : AcquisitionValues]

ReplaceNaN_kept(f) == f

\* acq[idx, :] = -np.finfo(float).max for the rows idx where acq is NaN.
ReplaceNaN(f) == IF isnan(f) THEN Number(0 - FloatMax) ELSE f

\* __call__(configurations): the values of _compute with NaN replaced.
AcquisitionCall ==
    /\ call.fn = "__call__"
    /\ ~result.ended
    /\ result' = Returned([i \in DOMAIN call.acq |-> ReplaceNaN(call.acq[i])])
    /\ UNCHANGED <<call, extractVars, chooserVars, twinVars>>

\* The value is not greater than any finite score.
WorstScore(f) == \A g \in FiniteFloats : LessEqual(f, g)

\* C20: the call raises no error; for every configuration whose computed
\* value is NaN, +inf or -inf it returns a value not greater than any finite
\* score, and it returns finite values unchanged.
C20_NonFiniteIsWorst ==
    (call.fn = "__call__" /\ result.ended) =>
        /\ result.raised = "-"
        /\ \A i \in DOMAIN call.acq :
               IF call.acq[i] \in FiniteFloats
               THEN result.value[i] = call.acq[i]
               ELSE WorstScore(result.value[i])

\* C20 as the code has it: the call raises no error; NaN is returned as
\* -np.finfo(float).max, which no finite score is below; every other value,
\* +inf and -inf included, is returned unchanged, so +inf is returned as a
\* value greater than every finite score.
C20_Amended ==
    (call.fn = "__call__" /\ result.ended) =>
        /\ result.raised = "-"
        /\ \A i \in DOMAIN call.acq :
               IF isnan(call.acq[i])
               THEN result.value[i] = Number(0 - FloatMax) /\ WorstScore(result.value[i])
               ELSE result.value[i] = call.acq[i]

\* A call whose computed values are NaN and +inf has returned.
C20_Witness ==
    /\ call.fn = "__call__" /\ result.ended
    /\ \E i \in DOMAIN call.acq : isnan(call.acq[i])
    /\ \E i \in DOMAIN call.acq : call.acq[i] = Number(PositiveInfinity)

\* ------------------------------------------- TuRBOSubSpace.adjust_length
\* The calls of adjust_length on a trust region as constructed.
AdjustCalls ==
    [fn : {"adjust_length"}, turbo : {NewTurbo(best, 0) : best \in YValues}, y : YValues]

\* self.turbo_optimizer.adjust_length(new_observations)
AdjustLength ==
    /\ call.fn = "adjust_length"
    /\ ~result.ended
    /\ result' = Returned(adjust_length(call.turbo, call.y))
    /\ UNCHANGED <<call, extractVars, chooserVars, twinVars>>

\* The next trial of a trust region that is not exhausted: the newest
\* observation has joined its data or not, and adjust_length is called with
\* the next observation.
AdjustNext ==
    /\ call.fn = "adjust_length"
    /\ result.ended
    /\ ~Exhausted(result.value)
    /\ \E y \in YValues, inside \in BOOLEAN :
           call' = [call EXCEPT !.turbo = add_new_observations(result.value, call.y, inside),
                                !.y = y]
    /\ result' = Pending
    /\ UNCHANGED <<extractVars, chooserVars, twinVars>>

\* The observation of the call does not improve on the trust region's best.
FailureTrial == ~(call.y < call.turbo.ss_y_min)

\* C21: after every adjust_length call of any sequence the length is at most
\* the full-space extent (length_max); a call with a non-improving
\* observation never increases the length: it halves it when the failure
\* streak reaches the threshold, and then both streaks are zero, and leaves
\* it equal otherwise.
C21_LengthOnFailures ==
    (call.fn = "adjust_length" /\ result.ended) =>
        /\ result.value.length <= length_max
        /\ FailureTrial =>
               IF call.turbo.failure_count + 1 = streak_tol
               THEN /\ result.value.length = call.turbo.length \div 2
                    /\ result.value.success_count = 0
                    /\ result.value.failure_count = 0
               ELSE result.value.length = call.turbo.length

\* A second consecutive failure halved a length that earlier successes had
\* doubled to the full-space extent.
C21_Witness ==
    /\ call.fn = "adjust_length" /\ result.ended
    /\ FailureTrial
    /\ call.turbo.length = length_max
    /\ result.value.length = length_max \div 2

\* The trust-region state adjust_length is about.
Streaks(t) == <<t.length, t.success_count, t.failure_count>>

\* C22: adjust_length called a second time with the same observation leaves
\* length, success streak and failure streak as the first call left them.
C22_Idempotent ==
    (call.fn = "adjust_length" /\ result.ended) =>
        Streaks(adjust_length(result.value, call.y)) = Streaks(result.value)

\* C22 as section 4.3 has it: the second call with the same observation
\* counts it again; it advances the same streak by one more, or at the
\* threshold resets it and doubles or halves the length, so the streaks
\* after two calls always differ from the streaks after one.
C22_Amended ==
    (call.fn = "adjust_length" /\ result.ended) =>
        LET once == result.value
            twice == adjust_length(once, call.y)
            streak(t) == IF FailureTrial THEN t.failure_count ELSE t.success_count
        IN  /\ Streaks(twice) # Streaks(once)
            /\ streak(twice) = (streak(once) + 1) % streak_tol
            /\ (streak(twice) # 0) => twice.length = once.length

\* The second call with the same non-improving observation would halve the
\* length the first call left unchanged.
C22_Witness ==
    /\ call.fn = "adjust_length" /\ result.ended
    /\ FailureTrial
    /\ result.value.length = call.turbo.length
    /\ adjust_length(result.value, call.y).length = call.turbo.length \div 2

\* This step is a call of choose_next that returns challengers.
ReturningTrial == trial.branch = "call" /\ trial'.branch \notin {"call", "error"}

\* The sources of the challengers a BOinG turn returns.
RegionSources ==
    {"self._random_search.maximize", "BOinGSubspace(bounds=self.bounds)",
     "BOinGSubspace(bounds_ss)"}

\* C28: the mode at the start of a call fixes the source of the challengers
\* it returns: a call that starts in BOinG mode returns challengers of the
\* random search or of a BOinG subspace, also when it switches to TuRBO; a
\* call that starts in TuRBO mode returns the trust region's challengers,
\* also when it switches to BOinG. The mode a call selects is the one the
\* next call starts in.
C28_SourceFixedAtStart ==
    [][ReturningTrial =>
          IF InTuRBO
          THEN ReturnedBy(trial').from = "self.turbo_optimizer"
          ELSE ReturnedBy(trial').from \in RegionSources]_vars

\* A call that started in TuRBO mode drew the switch to BOinG and returned
\* the trust region's challengers.
C28_Witness ==
    /\ trial.branch = "turbo_exhausted"
    /\ trial.draw = "switch"
    /\ ~run_TuRBO
    /\ ReturnedBy(trial).from = "self.turbo_optimizer"

\* This step is a call in TuRBO mode whose trust region has initial
\* configurations pending or is not exhausted after adjust_length.
ContinuingTurboTrial ==
    /\ trial.branch = "call" /\ trial'.branch # "call"
    /\ InTuRBO
    /\ turbo_optimizer.init_configs > 0 \/ ~Exhausted(AdjustedTurbo)

\* C30: such a call leaves the chooser in TuRBO mode, leaves both counts of
\* failures and the incumbent (value and configuration) as they were, does
\* not train the global model or restart the trust region, adds the newest
\* observation to the trust region (after adjust_length when no initial
\* configuration is pending) and returns the trust region's challengers.
C30_ContinuesInTuRBO ==
    [][ContinuingTurboTrial =>
          /\ run_TuRBO'
          /\ UNCHANGED <<failcount_BOinG, failcount_TurBO, optimal_value, optimal_config>>
          /\ ~trial'.trained /\ ~trial'.restarted
          /\ ReturnedBy(trial').from = "self.turbo_optimizer"
          /\ LET before == IF turbo_optimizer.init_configs > 0 THEN turbo_optimizer
                           ELSE AdjustedTurbo
             IN  \E inside \in BOOLEAN :
                    turbo_optimizer' =
                        generate_challengers(
                            add_new_observations(before, runhistory.last_y, inside))]_vars

\* A call continued in TuRBO mode with an observation that improved on the
\* trust region's best value and joined its data.
C30_Witness ==
    /\ trial.branch = "turbo_continue"
    /\ run_TuRBO
    /\ turbo_optimizer.success_count > 0
    /\ turbo_optimizer.ss_y_min = runhistory.last_y

\* -------------------------------- long stays in TuRBO: specification
\* The count of TuRBO failures is followed up to MaxExhaustions, beyond the
\* count at which every draw switches to BOinG.
MaxExhaustions == 11

\* The chooser with switching, as constructed.
InitLongStay == InitChooser /\ do_switching

\* The observations of a run without improvements after the first ones: the
\* costs are told at one configuration.
RecordAtOrigin(y) ==
    \E x \in {p \in Evaluated : \A d \in Dims : p[d] = 0} : RecordObservation(x, y)

NextLongStay ==
    \/ \E y \in YValues : RecordAtOrigin(y)
    \/ ChooseTurboInit
    \/ ChooseTurboContinue
    \/ ChooseTurboExhaustedBelow(MaxExhaustions)
    \/ ChooseRandom
    \/ ChooseFullSpace
    \/ ChooseRegion

SpecLongStay == InitLongStay /\ [][NextLongStay]_vars

\* C29: in a call with an exhausted trust region, a count of TuRBO failures
\* of 10 or more after its update switches to BOinG whatever the draw, and a
\* count of 0 or less is never switched by the draw. The count is at least
\* -1 and at most 9 whenever a call leaves the chooser in TuRBO mode, so the
\* chooser stays in TuRBO through at most 10 exhaustions in a row that each
\* increment the count.
C29_DrawDecides ==
    /\ [](InTuRBO => (0 - 1 <= failcount_TurBO /\ failcount_TurBO <= 9))
    /\ [][ExhaustedTrial =>
             /\ failcount_TurBO' >= 10 => (trial'.draw = "switch" /\ ~run_TuRBO')
             /\ failcount_TurBO' <= 0 => trial'.draw = "stay"]_vars

\* The tenth exhaustion in a row brought the count to 10 and the chooser
\* switched to BOinG.
C29_Witness ==
    /\ trial.branch = "turbo_exhausted"
    /\ trial.improvement = "none"
    /\ failcount_TurBO = 10
    /\ ~run_TuRBO

\* ------------------------------------------ BOinGChooser.restart_TuRBOinG
\* Number of configurations restart_TuRBOinG samples (num_samples).
NumProbes == 2

\* The intervals subspace_extraction can return for a continuous dimension.
Intervals == {iv \in (0..GridMax) \X (0..GridMax) : iv[1] <= iv[2]}

\* What one call of subspace_extraction hands back to restart_TuRBOinG:
\* union_bounds_cont and ss_data_indices, a mask over the observations.
ProbeResults ==
    {[cont |-> c, ind |-> m] : c \in [DOMAIN cont_dims -> Intervals],
                               m \in [1..MaxObs -> BOOLEAN]}

\* The calls enumerated: the results of the extractions of the samples, in
\* the order of the samples.
RestartCalls ==
    {[fn |-> "restart_TuRBOinG", union |-> u] : u \in [1..NumProbes -> ProbeResults]}

\* np.product(union_ss[s, :, 1] - union_ss[s, :, 0]) over the first n
\* continuous dimensions.
RECURSIVE ProductOfWidths(_, _)
ProductOfWidths(ss, n) ==
    IF n = 0 THEN 1 ELSE (ss[n][2] - ss[n][1]) * ProductOfWidths(ss, n - 1)

\* Mutant of argmax: the first index of a least value.
argmin(v) ==
    CHOOSE s \in DOMAIN v :
        /\ \A t \in DOMAIN v : v[s] <= v[t]
        /\ \A t \in DOMAIN v : t < s => v[s] < v[t]

\* np.argmax(v): the first index of a greatest value.
argmax(v) ==
    CHOOSE s \in DOMAIN v :
        /\ \A t \in DOMAIN v : v[t] <= v[s]
        /\ \A t \in DOMAIN v : t < s => v[t] < v[s]

\* Mutant of restart_TuRBOinG: the mask of the last sample is handed over.
restart_TuRBOinG_lastmask(union) ==
    LET volume_ss == [s \in DOMAIN union |-> ProductOfWidths(union[s].cont, Len(cont_dims))]
        ss_idx == argmax(volume_ss)
    IN  [bounds_ss_cont |-> union[ss_idx].cont,
         initial_data |-> {k \in DOMAIN union[Len(union)].ind : union[Len(union)].ind[k]}]

\* restart_TuRBOinG after its loop: the bounds of the new TuRBOSubSpace and
\* the rows of X and Y_raw it is given as initial data and as observations.
restart_TuRBOinG(union) ==
    LET volume_ss == [s \in DOMAIN union |-> ProductOfWidths(union[s].cont, Len(cont_dims))]
        ss_idx == argmax(volume_ss)
        ss_turbo == union[ss_idx].cont
        ss_data_indices == union[ss_idx].ind
    IN  [bounds_ss_cont |-> ss_turbo,
         initial_data |-> {k \in DOMAIN ss_data_indices : ss_data_indices[k]}]

\* One call of restart_TuRBOinG.
RestartTuRBOinG ==
    /\ call.fn = "restart_TuRBOinG"
    /\ ~result.ended
    /\ result' = Returned(restart_TuRBOinG(call.union))
    /\ UNCHANGED <<call, extractVars, chooserVars, twinVars>>

\* C33: the new TuRBOSubSpace gets the continuous bounds and the masked
\* observations of one and the same sample, whose region has a continuous
\* volume not below that of the region of any other sample.
C33_LargestRegionAndItsData ==
    (call.fn = "restart_TuRBOinG" /\ result.ended)
    => \E s \in DOMAIN call.union :
          /\ result.value.bounds_ss_cont = call.union[s].cont
          /\ result.value.initial_data = {k \in 1..MaxObs : call.union[s].ind[k]}
          /\ \A t \in DOMAIN call.union :
                ProductOfWidths(call.union[t].cont, Len(cont_dims))
                    <= ProductOfWidths(call.union[s].cont, Len(cont_dims))

\* The last sample's region is strictly the largest, and its mask differs
\* from that of every sample before it: the new subspace got this sample's
\* bounds and observations.
C33_Witness ==
    /\ call.fn = "restart_TuRBOinG" /\ result.ended
    /\ \A t \in 1..(NumProbes - 1) :
          /\ ProductOfWidths(call.union[t].cont, Len(cont_dims))
                < ProductOfWidths(call.union[NumProbes].cont, Len(cont_dims))
          /\ call.union[t].ind # call.union[NumProbes].ind
    /\ result.value.bounds_ss_cont = call.union[NumProbes].cont
    /\ result.value.initial_data = {k \in 1..MaxObs : call.union[NumProbes].ind[k]}
    /\ result.value.initial_data # {}

\* ------------------------------------------- single calls: specification
\* A single call of one of the functions, with any arguments; the chooser's
\* switching state and the extraction are idle.
InitCalls ==
    /\ call \in CollectCalls \cup ConditionalCalls \cup InitCallsOfChooser
                \cup AcquisitionCalls \cup AdjustCalls \cup RestartCalls
    /\ result = Pending
    /\ twin = None
    /\ X = <<>>
    /\ challenger = None
    /\ num_min = 0
    /\ num_max = 0
    /\ trees = <<>>
    /\ node_indices = <<>>
    /\ stop_update = <<>>
    /\ ss_indices = <<>>
    /\ ss_bounds_cont = InitBoundsCont
    /\ ss_bounds_cat = InitBoundsCat
    /\ indices_trees = {}
    /\ passes = 0
    /\ phases = 0
    /\ pc = "idle"
    /\ do_switching = FALSE
    /\ run_TuRBO = FALSE
    /\ failcount_BOinG = 0
    /\ failcount_TurBO = 0
    /\ optimal_value = Infinity
    /\ optimal_config = None
    /\ turbo_optimizer = NewTurbo(Infinity, 0)
    /\ runhistory = EmptyHistory
    /\ trial = Due

NextCalls ==
    \/ Collect
    \/ ChooseConditional
    \/ Construct
    \/ ProcessTrial
    \/ AcquisitionCall
    \/ AdjustLength
    \/ AdjustNext
    \/ RestartTuRBOinG

SpecCalls == InitCalls /\ [][NextCalls]_vars

====
